---- MODULE Spec2Model ----
(***************************************************************************)
(* Ingestion, fusion and rule scoring of the drop-out regression system:   *)
(* src/src/ingestion.py (column normaliser, the three schema auto-mappers, *)
(* per-student aggregation and outer-join fusion) and src/src/rules.py     *)
(* (threshold rules on the fused table), with their callers in             *)
(* src/app/app.py (load_data) and the scorer of src/src/model.py.          *)
(*                                                                         *)
(* Text is a sequence of one-character strings, so that str.strip,         *)
(* str.lower and str.replace are computed character by character.  A cell  *)
(* of a DataFrame is a tagged Python object; a float is the pair          *)
(* <<numerator, denominator>> in lowest terms and NaN is the pair <<0,0>>. *)
(***************************************************************************)
EXTENDS Integers, Sequences, FiniteSets, TLC

VARIABLES attendance_df, assessments_df, fees_df, att, ass, fee, merged, err, pc,
          empty_apply_raises, thresholds, scored, calls, model_df, loaded,
          student_data, detected_lang

vars == <<attendance_df, assessments_df, fees_df, att, ass, fee, merged, err, pc,
          empty_apply_raises, thresholds, scored, calls, model_df, loaded,
          student_data, detected_lang>>

\* the variables of the callers in app.py
\* the variables of _detect_student_language
lang_vars == <<student_data, detected_lang>>

app_vars == <<model_df, loaded, student_data, detected_lang>>

(* ------------------------------ text ---------------------------------- *)

UpperChars == <<"A","B","C","D","E","F","G","H","I","J","K","L","M",
                "N","O","P","Q","R","S","T","U","V","W","X","Y","Z">>

LowerChars == <<"a","b","c","d","e","f","g","h","i","j","k","l","m",
                "n","o","p","q","r","s","t","u","v","w","x","y","z">>

DigitChars == <<"0","1","2","3","4","5","6","7","8","9">>

Whitespace == {" ", "\t", "\n"}

\* the lower-case letter of every upper-case letter
LowerOf ==
  [c \in {UpperChars[i] : i \in DOMAIN UpperChars} |->
     LowerChars[CHOOSE i \in DOMAIN UpperChars : UpperChars[i] = c]]

\* str.lower on one character
LowerChar(c) == IF c \in DOMAIN LowerOf THEN LowerOf[c] ELSE c

\* str.lower
StrLower(s) == [i \in DOMAIN s |-> LowerChar(s[i])]

\* strip forgotten
StrStripNothing(s) == s

\* str.strip: drops the leading and the trailing whitespace
StrStrip(s) ==
  LET keep == {i \in DOMAIN s : s[i] \notin Whitespace}
  IN  IF keep = {} THEN <<>>
      ELSE LET lo == CHOOSE i \in keep : \A j \in keep : i <= j
               hi == CHOOSE i \in keep : \A j \in keep : j <= i
           IN  SubSeq(s, lo, hi)

\* a replacement that stops after the first space
StrReplaceFirstSpace(s) ==
  [i \in DOMAIN s |->
     IF s[i] = " " /\ \A j \in 1..(i - 1) : s[j] # " " THEN "_" ELSE s[i]]

\* str.replace(" ", "_")
StrReplaceSpace(s) == [i \in DOMAIN s |-> IF s[i] = " " THEN "_" ELSE s[i]]

IsDigit(c) == \E i \in DOMAIN DigitChars : DigitChars[i] = c

DigitVal(c) == (CHOOSE i \in DOMAIN DigitChars : DigitChars[i] = c) - 1

RECURSIVE DigitsOf(_)
\* decimal digits of a natural number
DigitsOf(n) == IF n < 10 THEN <<DigitChars[n + 1]>>
               ELSE DigitsOf(n \div 10) \o <<DigitChars[(n % 10) + 1]>>

\* str(n) of a Python int
IntStr(n) == IF n < 0 THEN <<"-">> \o DigitsOf(-n) ELSE DigitsOf(n)

RECURSIVE DigitsVal(_)
\* value of a non-empty sequence of decimal digits
DigitsVal(s) == IF Len(s) = 1 THEN DigitVal(s[1])
                ELSE 10 * DigitsVal(SubSeq(s, 1, Len(s) - 1)) + DigitVal(s[Len(s)])

(* ----------------------------- numbers -------------------------------- *)

NaN == <<0, 0>>

IsNaN(q) == q[2] = 0

Abs(n) == IF n < 0 THEN -n ELSE n

RECURSIVE Gcd(_, _)
Gcd(a, b) == IF b = 0 THEN a ELSE Gcd(b, a % b)

\* the float a / b; 0 / 0 is NaN as in a pandas Series division
Rat(a, b) ==
  IF b = 0 THEN NaN
  ELSE LET g == Gcd(Abs(a), Abs(b))
           s == IF b < 0 THEN -1 ELSE 1
       IN  <<(s * a) \div g, (s * b) \div g>>

RatOfInt(n) == <<n, 1>>

RatAdd(p, q) == IF IsNaN(p) \/ IsNaN(q) THEN NaN
                ELSE Rat(p[1] * q[2] + q[1] * p[2], p[2] * q[2])

RatSub(p, q) == IF IsNaN(p) \/ IsNaN(q) THEN NaN
                ELSE Rat(p[1] * q[2] - q[1] * p[2], p[2] * q[2])

RatDiv(p, q) == IF IsNaN(p) \/ IsNaN(q) THEN NaN
                ELSE Rat(p[1] * q[2], p[2] * q[1])

RatLess(p, q) == ~IsNaN(p) /\ ~IsNaN(q) /\ p[1] * q[2] < q[1] * p[2]

RatLeq(p, q) == ~IsNaN(p) /\ ~IsNaN(q) /\ p[1] * q[2] <= q[1] * p[2]

\* Series.fillna(v)
FillNa(q, v) == IF IsNaN(q) THEN v ELSE q

\* no clamp
ClipNothing(q, v) == q

\* Series.clip(lower=v): NaN stays NaN
ClipLower(q, v) == IF IsNaN(q) THEN NaN ELSE IF RatLess(q, v) THEN v ELSE q

(* ------------------------------ cells --------------------------------- *)

\* every cell has the same fields, so that any two cells can be compared: k
\* is the Python type, n / d the number (d = 1 for an int, n = 1 for True),
\* s the text of a str
IntCell(n) == [k |-> "int", n |-> n, d |-> 1, s |-> <<>>]

StrCell(s) == [k |-> "str", n |-> 0, d |-> 1, s |-> s]

FloatCell(q) == [k |-> "float", n |-> q[1], d |-> q[2], s |-> <<>>]

BoolCell(b) == [k |-> "bool", n |-> IF b THEN 1 ELSE 0, d |-> 1, s |-> <<>>]

NullCell == FloatCell(NaN)

\* pandas isna on one cell
IsNull(c) == c.k = "float" /\ c.d = 0

\* str(x) of a cell, as Series.astype(str) and str(c) produce it; a float is
\* written for the integer-valued floats and NaN, the floats the inputs hold
CellStr(c) ==
  CASE c.k = "str" -> c.s
    [] c.k = "int" -> IntStr(c.n)
    [] c.k = "bool" -> IF c.n = 1 THEN <<"T","r","u","e">> ELSE <<"F","a","l","s","e">>
    [] c.k = "float" -> IF c.d = 0 THEN <<"n","a","n">>
                        ELSE IntStr(c.n \div c.d) \o <<".","0">>

\* the float a string parses to under pd.to_numeric(errors="coerce"): a
\* decimal integer literal with optional sign; the inputs hold no other
\* numeric syntax, and every other text is coerced to NaN
ParseNumber(s) ==
  LET neg  == Len(s) > 0 /\ s[1] = "-"
      body == IF neg THEN SubSeq(s, 2, Len(s)) ELSE s
  IN  IF Len(body) > 0 /\ \A i \in DOMAIN body : IsDigit(body[i])
      THEN RatOfInt(IF neg THEN -DigitsVal(body) ELSE DigitsVal(body))
      ELSE NaN

\* pd.to_numeric(errors="coerce") on one cell
ToNumeric(c) ==
  CASE c.k = "int" -> RatOfInt(c.n)
    [] c.k = "float" -> <<c.n, c.d>>
    [] c.k = "bool" -> RatOfInt(c.n)
    [] c.k = "str" -> ParseNumber(c.s)

(* ----------------------- headers and candidates ---------------------- *)

\* the canonical column names, as the str labels of a DataFrame

h_student_id == StrCell(<<"s","t","u","d","e","n","t","_","i","d">>)


h_student_name == StrCell(<<"s","t","u","d","e","n","t","_","n","a","m","e">>)


h_student_language == StrCell(<<"s","t","u","d","e","n","t","_","l","a","n","g","u","a","g","e">>)


h_date == StrCell(<<"d","a","t","e">>)


h_present == StrCell(<<"p","r","e","s","e","n","t">>)


h_assessment_name == StrCell(<<"a","s","s","e","s","s","m","e","n","t","_","n","a","m","e">>)


h_score == StrCell(<<"s","c","o","r","e">>)


h_amount_due == StrCell(<<"a","m","o","u","n","t","_","d","u","e">>)


h_amount_paid == StrCell(<<"a","m","o","u","n","t","_","p","a","i","d">>)


h_due_date == StrCell(<<"d","u","e","_","d","a","t","e">>)


\* candidate headers of student_id, in priority order (all three mappers)
student_id_cands ==
  <<StrCell(<<"s","t","u","d","e","n","t","_","i","d">>),
    StrCell(<<"i","d">>),
    StrCell(<<"s","t","u","d","e","n","t">>),
    StrCell(<<"r","e","g","n","o">>),
    StrCell(<<"r","e","g","_","n","o">>),
    StrCell(<<"i","n","d","e","x","_","n","o">>),
    StrCell(<<"a","d","m","i","s","s","i","o","n","_","n","o">>)>>


\* candidate headers of student_name
student_name_cands ==
  <<StrCell(<<"s","t","u","d","e","n","t","_","n","a","m","e">>),
    StrCell(<<"n","a","m","e">>),
    StrCell(<<"f","u","l","l","_","n","a","m","e">>)>>


\* candidate headers of student_language
student_language_cands ==
  <<StrCell(<<"l","a","n","g","u","a","g","e">>),
    StrCell(<<"l","a","n","g">>),
    StrCell(<<"p","r","e","f","e","r","r","e","d","_","l","a","n","g","u","a","g","e">>),
    StrCell(<<"m","o","t","h","e","r","_","t","o","n","g","u","e">>),
    StrCell(<<"n","a","t","i","v","e","_","l","a","n","g","u","a","g","e">>)>>


\* candidate headers of date (attendance)
date_cands ==
  <<StrCell(<<"d","a","t","e">>),
    StrCell(<<"a","t","t","e","n","d","a","n","c","e","_","d","a","t","e">>),
    StrCell(<<"d","a","y">>),
    StrCell(<<"r","e","c","o","r","d","e","d","_","d","a","t","e">>)>>


\* candidate headers of present (attendance)
present_cands ==
  <<StrCell(<<"p","r","e","s","e","n","t">>),
    StrCell(<<"i","s","_","p","r","e","s","e","n","t">>),
    StrCell(<<"a","t","t","e","n","d","a","n","c","e">>),
    StrCell(<<"s","t","a","t","u","s">>),
    StrCell(<<"a","t","t","e","n","d","e","d">>),
    StrCell(<<"p","r","e","s","e","n","t","_","f","l","a","g">>),
    StrCell(<<"p">>),
    StrCell(<<"a","t","t","e","n","d","a","n","c","e","_","m","a","r","k">>)>>


\* candidate headers of assessment_name (assessments)
assessment_name_cands ==
  <<StrCell(<<"a","s","s","e","s","s","m","e","n","t","_","n","a","m","e">>),
    StrCell(<<"e","x","a","m">>),
    StrCell(<<"t","e","s","t">>),
    StrCell(<<"a","s","s","e","s","s","m","e","n","t">>),
    StrCell(<<"c","o","m","p","o","n","e","n","t">>),
    StrCell(<<"n","a","m","e">>)>>


\* candidate headers of score (assessments)
score_cands ==
  <<StrCell(<<"s","c","o","r","e">>),
    StrCell(<<"m","a","r","k","s">>),
    StrCell(<<"m","a","r","k">>),
    StrCell(<<"g","r","a","d","e","_","v","a","l","u","e">>),
    StrCell(<<"p","e","r","c","e","n","t","a","g","e">>)>>


\* candidate headers of amount_due (fees)
amount_due_cands ==
  <<StrCell(<<"a","m","o","u","n","t","_","d","u","e">>),
    StrCell(<<"d","u","e">>),
    StrCell(<<"f","e","e","_","d","u","e">>),
    StrCell(<<"t","o","t","a","l","_","d","u","e">>)>>


\* candidate headers of amount_paid (fees)
amount_paid_cands ==
  <<StrCell(<<"a","m","o","u","n","t","_","p","a","i","d">>),
    StrCell(<<"p","a","i","d">>),
    StrCell(<<"f","e","e","_","p","a","i","d">>),
    StrCell(<<"t","o","t","a","l","_","p","a","i","d">>)>>


\* candidate headers of due_date (fees)
due_date_cands ==
  <<StrCell(<<"d","u","e","_","d","a","t","e">>),
    StrCell(<<"d","e","a","d","l","i","n","e">>),
    StrCell(<<"l","a","s","t","_","d","a","t","e">>),
    StrCell(<<"d","a","t","e">>)>>

(* ------------------------------ tables -------------------------------- *)

\* A DataFrame: the column labels in order, and the rows, each a sequence of
\* cells aligned with the labels.  Labels may repeat, as in pandas.
Frame(cols, rows) == [columns |-> cols, rows |-> rows]

NoFrame == Frame(<<>>, <<>>)

\* label in df.columns
HasCol(df, h) == \E i \in DOMAIN df.columns : df.columns[i] = h

\* the positions labelled h
ColIdx(df, h) == {i \in DOMAIN df.columns : df.columns[i] = h}

\* df[h] is a Series only when exactly one column is labelled h; with a
\* repeated label it is a DataFrame, on which the Series operations of the
\* mappers and the aggregator raise
IsSeries(df, h) == Cardinality(ColIdx(df, h)) = 1

Col(df, h) == CHOOSE i \in ColIdx(df, h) : TRUE

\* the Series df[h], in row order
Series(df, h) == [r \in DOMAIN df.rows |-> df.rows[r][Col(df, h)]]

\* df[h] = values: overwrites the column labelled h, or appends a new one
SetCol(df, h, values) ==
  IF HasCol(df, h)
  THEN [df EXCEPT !.rows = [r \in DOMAIN df.rows |->
                              [df.rows[r] EXCEPT ![Col(df, h)] = values[r]]]]
  ELSE Frame(Append(df.columns, h),
             [r \in DOMAIN df.rows |-> Append(df.rows[r], values[r])])

\* df.rename(columns={old: new}): every column labelled old is relabelled
Rename(df, old, new) ==
  [df EXCEPT !.columns = [i \in DOMAIN df.columns |->
                            IF df.columns[i] = old THEN new ELSE df.columns[i]]]

\* df.rename(columns=mapping), the mapping a sequence of <<old, new>> pairs
RenameBy(df, mapping) ==
  [df EXCEPT !.columns = [i \in DOMAIN df.columns |->
     IF \E m \in DOMAIN mapping : mapping[m][1] = df.columns[i]
     THEN mapping[CHOOSE m \in DOMAIN mapping : mapping[m][1] = df.columns[i]][2]
     ELSE df.columns[i]]]

DEFAULT_MAPPINGS ==
  [attendance  |-> << <<h_student_id, h_student_id>>, <<h_date, h_date>>,
                      <<h_present, h_present>> >>,
   assessments |-> << <<h_student_id, h_student_id>>,
                      <<h_assessment_name, h_assessment_name>>,
                      <<h_score, h_score>> >>,
   fees        |-> << <<h_student_id, h_student_id>>,
                      <<h_amount_due, h_amount_due>>,
                      <<h_amount_paid, h_amount_paid>>,
                      <<h_due_date, h_due_date>> >>]

(* ------------------------- column normaliser -------------------------- *)

\* str(c).strip().lower().replace(" ", "_")
NormalizeHeader(c) == StrCell(StrReplaceSpace(StrLower(StrStrip(CellStr(c)))))

\* _normalize_columns: a copy of df with every label normalised
normalize_columns(df) ==
  [df EXCEPT !.columns = [i \in DOMAIN df.columns |-> NormalizeHeader(df.columns[i])]]

\* the labels assigned on the caller's frame itself
NormalizeInPlace(df) == normalize_columns(df)

\* what _normalize_columns leaves in the caller's df: line 55 rebinds df to
\* a copy, so line 56 assigns the labels of the copy
NormalizeLeaves(df) == df

(* --------------------------- auto-mappers ----------------------------- *)

\* the loop without its break: the last candidate present wins
LastCand(df, cands) ==
  LET here == {i \in DOMAIN cands : HasCol(df, cands[i])}
  IN  IF here = {} THEN 0 ELSE CHOOSE i \in here : \A j \in here : j <= i

\* the position in cands of the first candidate that labels a column, or 0
FirstCand(df, cands) ==
  LET here == {i \in DOMAIN cands : HasCol(df, cands[i])}
  IN  IF here = {} THEN 0 ELSE CHOOSE i \in here : \A j \in here : i <= j

\* for cand in cands: if cand in df.columns: rename(cand -> canon); break
MapField(df, cands, canon) ==
  LET i == FirstCand(df, cands)
  IN  IF i = 0 THEN df ELSE Rename(df, cands[i], canon)

\* the token table of the present column
PresentMapping ==
  << <<StrCell(<<"1">>), 1>>, <<StrCell(<<"0">>), 0>>,
     <<StrCell(<<"t","r","u","e">>), 1>>, <<StrCell(<<"f","a","l","s","e">>), 0>>,
     <<StrCell(<<"y","e","s">>), 1>>, <<StrCell(<<"n","o">>), 0>>,
     <<StrCell(<<"y">>), 1>>, <<StrCell(<<"n">>), 0>>,
     <<StrCell(<<"p">>), 1>>, <<StrCell(<<"a">>), 0>> >>

\* series.map(mapping) on one text: the mapped object, NaN when not a key
MapToken(s) ==
  IF \E m \in DOMAIN PresentMapping : PresentMapping[m][1] = StrCell(s)
  THEN IntCell(PresentMapping[CHOOSE m \in DOMAIN PresentMapping :
                                PresentMapping[m][1] = StrCell(s)][2])
  ELSE NullCell

\* Series.astype(int) on a float without NaN: truncation
AsInt(q) == IntCell(q[1] \div q[2])

\* the token table skipped: the cell taken as a number
CoercePresentRaw(c) == AsInt(FillNa(ToNumeric(c), RatOfInt(0)))

\* one cell of the present column through lines 98-101
CoercePresent(c) ==
  AsInt(FillNa(ToNumeric(MapToken(StrLower(StrStrip(CellStr(c))))), RatOfInt(0)))

\* fillna forgotten after the coercion
CoerceNumberNoFill(c, v) == FloatCell(ToNumeric(c))

\* pd.to_numeric(cell, errors="coerce") then fillna(v): a float cell
CoerceNumber(c, v) == FloatCell(FillNa(ToNumeric(c), v))

\* the result of a mapper: the mapped frame, or the exception it raised
Mapped(df) == [df |-> df, err |-> ""]

Raised(df, e) == [df |-> df, err |-> e]

\* a mapper that adds a present column of zeros when no candidate matched
auto_map_attendance_defaulting(df0) ==
  LET d1 == MapField(normalize_columns(df0), student_id_cands, h_student_id)
      d2 == MapField(d1, student_name_cands, h_student_name)
      d3 == MapField(d2, student_language_cands, h_student_language)
      d4 == MapField(d3, date_cands, h_date)
      d5 == MapField(d4, present_cands, h_present)
  IN  IF HasCol(d5, h_present) THEN Mapped(d5)
      ELSE Mapped(SetCol(d5, h_present, [r \in DOMAIN d5.rows |-> IntCell(0)]))

auto_map_attendance(df0) ==
  LET d1 == MapField(normalize_columns(df0), student_id_cands, h_student_id)
      d2 == MapField(d1, student_name_cands, h_student_name)
      d3 == MapField(d2, student_language_cands, h_student_language)
      d4 == MapField(d3, date_cands, h_date)
      d5 == MapField(d4, present_cands, h_present)
  IN  IF HasCol(d5, h_present)
      THEN IF IsSeries(d5, h_present)
           THEN Mapped(SetCol(d5, h_present,
                    [r \in DOMAIN d5.rows |-> CoercePresent(Series(d5, h_present)[r])]))
           ELSE Raised(d5, "AttributeError in _auto_map_attendance")
      ELSE Mapped(d5)

\* the assessment_name field resolved before student_name
auto_map_assessments_exam_first(df0) ==
  LET d1 == MapField(normalize_columns(df0), student_id_cands, h_student_id)
      d2 == MapField(d1, assessment_name_cands, h_assessment_name)
      d3 == MapField(d2, student_name_cands, h_student_name)
      d4 == MapField(d3, student_language_cands, h_student_language)
      d5 == MapField(d4, score_cands, h_score)
  IN  IF HasCol(d5, h_score)
      THEN IF IsSeries(d5, h_score)
           THEN Mapped(SetCol(d5, h_score,
                    [r \in DOMAIN d5.rows |->
                       CoerceNumber(Series(d5, h_score)[r], RatOfInt(0))]))
           ELSE Raised(d5, "TypeError in _auto_map_assessments")
      ELSE Mapped(SetCol(d5, h_score, [r \in DOMAIN d5.rows |-> FloatCell(RatOfInt(0))]))

auto_map_assessments(df0) ==
  LET d1 == MapField(normalize_columns(df0), student_id_cands, h_student_id)
      d2 == MapField(d1, student_name_cands, h_student_name)
      d3 == MapField(d2, student_language_cands, h_student_language)
      d4 == MapField(d3, assessment_name_cands, h_assessment_name)
      d5 == MapField(d4, score_cands, h_score)
  IN  IF HasCol(d5, h_score)
      THEN IF IsSeries(d5, h_score)
           THEN Mapped(SetCol(d5, h_score,
                    [r \in DOMAIN d5.rows |->
                       CoerceNumber(Series(d5, h_score)[r], RatOfInt(0))]))
           ELSE Raised(d5, "TypeError in _auto_map_assessments")
      ELSE Mapped(SetCol(d5, h_score, [r \in DOMAIN d5.rows |-> FloatCell(RatOfInt(0))]))

\* the default column forgotten when no candidate matched
FillAmountNoDefault(df, h) ==
  IF HasCol(df, h)
  THEN IF IsSeries(df, h)
       THEN Mapped(SetCol(df, h,
                [r \in DOMAIN df.rows |-> CoerceNumber(Series(df, h)[r], RatOfInt(0))]))
       ELSE Raised(df, "TypeError in _auto_map_fees")
  ELSE Mapped(df)

\* lines 162-169 for one of amount_due, amount_paid
FillAmount(df, h) ==
  IF HasCol(df, h)
  THEN IF IsSeries(df, h)
       THEN Mapped(SetCol(df, h,
                [r \in DOMAIN df.rows |-> CoerceNumber(Series(df, h)[r], RatOfInt(0))]))
       ELSE Raised(df, "TypeError in _auto_map_fees")
  ELSE Mapped(SetCol(df, h, [r \in DOMAIN df.rows |-> FloatCell(RatOfInt(0))]))

auto_map_fees(df0) ==
  LET d1 == MapField(normalize_columns(df0), student_id_cands, h_student_id)
      d2 == MapField(d1, student_name_cands, h_student_name)
      d3 == MapField(d2, student_language_cands, h_student_language)
      d4 == MapField(d3, amount_due_cands, h_amount_due)
      d5 == MapField(d4, amount_paid_cands, h_amount_paid)
      d6 == MapField(d5, due_date_cands, h_due_date)
      due == FillAmount(d6, h_amount_due)
  IN  IF due.err # "" THEN due ELSE FillAmount(due.df, h_amount_paid)

(* ---------------------------- aggregation ----------------------------- *)

KindRank(c) == CASE c.k = "bool" -> 0 [] c.k = "int" -> 1
                 [] c.k = "float" -> 2 [] c.k = "str" -> 3

\* code-point order of the characters the inputs use
Alphabet == <<"\t", "\n", " ", "-", ".">> \o DigitChars \o UpperChars \o <<"_">> \o LowerChars

CharRank(c) == IF \E i \in DOMAIN Alphabet : Alphabet[i] = c
               THEN CHOOSE i \in DOMAIN Alphabet : Alphabet[i] = c
               ELSE 0

RECURSIVE StrLess(_, _)
StrLess(s, t) ==
  IF Len(t) = 0 THEN FALSE
  ELSE IF Len(s) = 0 THEN TRUE
  ELSE IF s[1] = t[1] THEN StrLess(Tail(s), Tail(t))
  ELSE CharRank(s[1]) < CharRank(t[1])

\* the order of a sorted index; between labels of different Python types the
\* library keeps an arbitrary order, fixed here by the kind
CellLess(a, b) ==
  IF a.k # b.k THEN KindRank(a) < KindRank(b)
  ELSE CASE a.k = "int" -> a.n < b.n
         [] a.k = "str" -> StrLess(a.s, b.s)
         [] a.k = "float" -> RatLess(<<a.n, a.d>>, <<b.n, b.d>>)
         [] a.k = "bool" -> a.n < b.n

RECURSIVE SortCells(_)
SortCells(S) ==
  IF S = {} THEN <<>>
  ELSE LET m == CHOOSE x \in S : \A y \in S \ {x} : CellLess(x, y)
       IN  <<m>> \o SortCells(S \ {m})

\* the group labels with the missing label kept (dropna=False)
GroupKeysWithNull(df) ==
  SortCells({Series(df, h_student_id)[r] : r \in DOMAIN df.rows})

\* the group labels of df.groupby("student_id"): the non-null values of the
\* column (dropna), sorted
GroupKeys(df) ==
  SortCells({Series(df, h_student_id)[r] : r \in DOMAIN df.rows}
              \ {c \in {Series(df, h_student_id)[r] : r \in DOMAIN df.rows} : IsNull(c)})

\* the rows of one group, in row order
GroupRows(df, key) == {r \in DOMAIN df.rows : Series(df, h_student_id)[r] = key}

RECURSIVE SumRows(_, _)
\* Series.sum over the rows R (NaN skipped); values is a function row -> float
SumRows(R, values) ==
  IF R = {} THEN RatOfInt(0)
  ELSE LET r == CHOOSE x \in R : TRUE
       IN  RatAdd(FillNa(values[r], RatOfInt(0)), SumRows(R \ {r}, values))

\* nunique in place of count
CountDistinct(R, values) == Cardinality({values[r] : r \in {x \in R : ~IsNaN(values[x])}})

\* Series.count over the rows R: the non-null values
CountRows(R, values) == Cardinality({r \in R : ~IsNaN(values[r])})

\* the value of the first row of R in place of the mean
FirstOfRows(R, values) == FillNa(values[CHOOSE r \in R : \A x \in R : r <= x], RatOfInt(0))

\* Series.mean over the rows R
MeanRows(R, values) == RatDiv(SumRows(R, values), RatOfInt(CountRows(R, values)))

\* the numeric values of a column of cells
Values(df, h) == [r \in DOMAIN df.rows |-> ToNumeric(Series(df, h)[r])]

\* lines 219-222
AttendanceAgg(df) ==
  LET keys == GroupKeys(df)
      vals == Values(df, h_present)
  IN  [i \in DOMAIN keys |->
         LET R == GroupRows(df, keys[i])
             days_present == SumRows(R, vals)
             days_total   == RatOfInt(CountRows(R, vals))
         IN  [student_id |-> keys[i],
              days_present |-> days_present,
              days_total |-> days_total,
              attendance_rate |-> FillNa(RatDiv(days_present, days_total), RatOfInt(0))]]

\* line 230
AssessmentsAgg(df) ==
  LET keys == GroupKeys(df)
      vals == Values(df, h_score)
  IN  [i \in DOMAIN keys |->
         [student_id |-> keys[i],
          avg_score |-> MeanRows(GroupRows(df, keys[i]), vals)]]

\* lines 241-249
FeesAgg(df) ==
  LET keys == GroupKeys(df)
      due  == Values(df, h_amount_due)
      paid == Values(df, h_amount_paid)
  IN  [i \in DOMAIN keys |->
         LET R == GroupRows(df, keys[i])
             amount_due_total  == SumRows(R, due)
             amount_paid_total == SumRows(R, paid)
         IN  [student_id |-> keys[i],
              amount_due_total |-> amount_due_total,
              amount_paid_total |-> amount_paid_total,
              balance_outstanding |->
                ClipLower(RatSub(amount_due_total, amount_paid_total), RatOfInt(0))]]

\* the index of an aggregate
IndexOf(agg) == {agg[i].student_id : i \in DOMAIN agg}

\* agg.loc[key]
RowOf(agg, key) == agg[CHOOSE i \in DOMAIN agg : agg[i].student_id = key]

\* a join that keeps only the left index
LeftIndex(left, right) == SortCells(left)

\* the index of a join(how="outer") of two indexes
OuterIndex(left, right) == SortCells(left \cup right)

\* .fillna(0) skipped
FillMergedSkipped(q) == q

\* the missing metrics filled with 1
FillMergedWithOne(q) == FillNa(q, RatOfInt(1))

\* the .fillna(0) of line 256 on one value
FillMerged(q) == FillNa(q, RatOfInt(0))

NullAttendance == [days_present |-> NaN, days_total |-> NaN, attendance_rate |-> NaN]

NullAssessments == [avg_score |-> NaN]

NullFees == [amount_due_total |-> NaN, amount_paid_total |-> NaN, balance_outstanding |-> NaN]

\* lines 252-257: att_agg.join(ass_agg, "outer").join(fee_agg, "outer")
\* .reset_index().fillna(0)
MergeAll(att_agg, ass_agg, fee_agg) ==
  LET first == OuterIndex(IndexOf(att_agg), IndexOf(ass_agg))
      keys  == OuterIndex({first[i] : i \in DOMAIN first}, IndexOf(fee_agg))
  IN  [i \in DOMAIN keys |->
        LET key == keys[i]
            a == IF key \in IndexOf(att_agg) THEN RowOf(att_agg, key) ELSE NullAttendance
            s == IF key \in IndexOf(ass_agg) THEN RowOf(ass_agg, key) ELSE NullAssessments
            f == IF key \in IndexOf(fee_agg) THEN RowOf(fee_agg, key) ELSE NullFees
        IN  [student_id |-> key,
             days_present |-> FillMerged(a.days_present),
             days_total |-> FillMerged(a.days_total),
             attendance_rate |-> FillMerged(a.attendance_rate),
             avg_score |-> FillMerged(s.avg_score),
             amount_due_total |-> FillMerged(f.amount_due_total),
             amount_paid_total |-> FillMerged(f.amount_paid_total),
             balance_outstanding |-> FillMerged(f.balance_outstanding),
             student_name |-> NullCell,
             student_language |-> NullCell]]

\* df.groupby("student_id")[h].first(): per group the first non-null value in
\* row order, null when the group has none
FirstSeries(df, h) ==
  LET keys == GroupKeys(df)
  IN  [key \in {keys[i] : i \in DOMAIN keys} |->
         LET R == {r \in GroupRows(df, key) : ~IsNull(Series(df, h)[r])}
         IN  IF R = {} THEN NullCell
             ELSE Series(df, h)[CHOOSE r \in R : \A q \in R : r <= q]]

\* a combination in which the later source overwrites
CombineLast(a, b) ==
  [key \in DOMAIN a \cup DOMAIN b |->
     IF key \in DOMAIN b /\ ~IsNull(b[key]) THEN b[key]
     ELSE IF key \in DOMAIN a THEN a[key] ELSE NullCell]

\* a.combine_first(b)
CombineFirst(a, b) ==
  [key \in DOMAIN a \cup DOMAIN b |->
     IF key \in DOMAIN a /\ ~IsNull(a[key]) THEN a[key]
     ELSE IF key \in DOMAIN b THEN b[key] ELSE NullCell]

NoSeries == [none |-> TRUE, s |-> <<>>]

SomeSeries(s) == [none |-> FALSE, s |-> s]

\* lines 260-268 and 271-279 for the attribute h
AttributeSeries(a, s, f, h) ==
  LET n1 == IF HasCol(a, h) THEN SomeSeries(FirstSeries(a, h)) ELSE NoSeries
      n2 == IF HasCol(s, h)
            THEN IF n1.none THEN SomeSeries(FirstSeries(s, h))
                 ELSE SomeSeries(CombineFirst(n1.s, FirstSeries(s, h)))
            ELSE n1
  IN  IF HasCol(f, h)
      THEN IF n2.none THEN SomeSeries(FirstSeries(f, h))
           ELSE SomeSeries(CombineFirst(n2.s, FirstSeries(f, h)))
      ELSE n2

\* merged[h] = series, aligned on student_id
Attach(rows, field, series) ==
  [i \in DOMAIN rows |->
     [rows[i] EXCEPT ![field] =
        IF rows[i].student_id \in DOMAIN series THEN series[rows[i].student_id]
        ELSE NullCell]]

\* the fused table: its rows and whether it has the optional columns
Fused(rows, has_name, has_language) ==
  [rows |-> rows, has_name |-> has_name, has_language |-> has_language]

NoFused == Fused(<<>>, FALSE, FALSE)

\* what a call of _aggregate_frames leaves: the table returned (when err is
\* ""), the exception raised, and the three argument frames as the call
\* left them
Outcome(m, e, a, s, f) == [merged |-> m, err |-> e, att |-> a, ass |-> s, fee |-> f]

\* a repeated label among the attribute columns makes the grouped selection
\* a DataFrame, which cannot be assigned to one column of merged
AttributesAreSeries(a, s, f) ==
  \A df \in {a, s, f} : \A h \in {h_student_name, h_student_language} :
     HasCol(df, h) => IsSeries(df, h)

\* the two columns assigned whether or not a source carries them
AttachAttributesAlways(rows, a, s, f) ==
  LET name_series     == AttributeSeries(a, s, f, h_student_name)
      language_series == AttributeSeries(a, s, f, h_student_language)
      r1 == IF name_series.none THEN rows
            ELSE Attach(rows, "student_name", name_series.s)
      r2 == IF language_series.none THEN r1
            ELSE Attach(r1, "student_language", language_series.s)
  IN  Fused(r2, TRUE, TRUE)

\* lines 259-289
AttachAttributes(rows, a, s, f) ==
  LET name_series     == AttributeSeries(a, s, f, h_student_name)
      language_series == AttributeSeries(a, s, f, h_student_language)
      r1 == IF name_series.none THEN rows
            ELSE Attach(rows, "student_name", name_series.s)
      r2 == IF language_series.none THEN r1
            ELSE Attach(r1, "student_language", language_series.s)
  IN  Fused(r2, ~name_series.none, ~language_series.none)

\* a check that never finds the column missing
MissingColumnIgnored(df, h) == FALSE

\* the check of present left out
MissingColumnButPresent(df, h) == h # h_present /\ ~HasCol(df, h)

\* h not in df.columns
MissingColumn(df, h) == ~HasCol(df, h)

\* _aggregate_frames.  apply_raises is the behaviour of the installed
\* pandas when groupby.apply meets no group (the lambda of line 242 is never
\* called and the result has no amount_due_total column): line 248 then
\* raises KeyError, or the aggregate is empty.
aggregate_frames(a0, s0, f0, apply_raises) ==
  IF MissingColumn(a0, h_present) THEN Outcome(NoFused, "KeyError: present", a0, s0, f0)
  ELSE IF MissingColumn(a0, h_student_id) THEN Outcome(NoFused, "KeyError: Attendance student_id", a0, s0, f0)
  ELSE IF ~IsSeries(a0, h_present) THEN Outcome(NoFused, "TypeError", a0, s0, f0)
  ELSE
  LET a1 == SetCol(a0, h_present,
               [r \in DOMAIN a0.rows |->
                  AsInt(FillNa(ToNumeric(Series(a0, h_present)[r]), RatOfInt(0)))])
  IN
  IF ~IsSeries(a1, h_student_id) THEN Outcome(NoFused, "ValueError", a1, s0, f0)
  ELSE IF MissingColumn(s0, h_student_id) THEN Outcome(NoFused, "KeyError: Assessments student_id", a1, s0, f0)
  ELSE
  LET s1 == IF HasCol(s0, h_score) THEN s0
            ELSE SetCol(s0, h_score, [r \in DOMAIN s0.rows |-> FloatCell(RatOfInt(0))])
  IN
  IF ~IsSeries(s1, h_score) THEN Outcome(NoFused, "TypeError", a1, s1, f0)
  ELSE
  LET s2 == SetCol(s1, h_score,
               [r \in DOMAIN s1.rows |-> CoerceNumber(Series(s1, h_score)[r], RatOfInt(0))])
  IN
  IF ~IsSeries(s2, h_student_id) THEN Outcome(NoFused, "ValueError", a1, s2, f0)
  ELSE IF MissingColumn(f0, h_student_id) THEN Outcome(NoFused, "KeyError: Fees student_id", a1, s2, f0)
  ELSE
  LET f1 == IF HasCol(f0, h_amount_due) THEN f0
            ELSE SetCol(f0, h_amount_due, [r \in DOMAIN f0.rows |-> FloatCell(RatOfInt(0))])
      f2 == IF HasCol(f1, h_amount_paid) THEN f1
            ELSE SetCol(f1, h_amount_paid, [r \in DOMAIN f1.rows |-> FloatCell(RatOfInt(0))])
  IN
  IF ~IsSeries(f2, h_amount_due) THEN Outcome(NoFused, "TypeError", a1, s2, f2)
  ELSE
  LET f3 == SetCol(f2, h_amount_due,
               [r \in DOMAIN f2.rows |-> CoerceNumber(Series(f2, h_amount_due)[r], RatOfInt(0))])
  IN
  IF ~IsSeries(f3, h_amount_paid) THEN Outcome(NoFused, "TypeError", a1, s2, f3)
  ELSE
  LET f4 == SetCol(f3, h_amount_paid,
               [r \in DOMAIN f3.rows |-> CoerceNumber(Series(f3, h_amount_paid)[r], RatOfInt(0))])
  IN
  IF ~IsSeries(f4, h_student_id) THEN Outcome(NoFused, "ValueError", a1, s2, f4)
  ELSE IF GroupKeys(f4) = <<>> /\ apply_raises
       THEN Outcome(NoFused, "KeyError: amount_due_total", a1, s2, f4)
  ELSE IF ~AttributesAreSeries(a1, s2, f4) THEN Outcome(NoFused, "ValueError", a1, s2, f4)
  ELSE Outcome(AttachAttributes(MergeAll(AttendanceAgg(a1), AssessmentsAgg(s2), FeesAgg(f4)),
                                a1, s2, f4),
               "", a1, s2, f4)

\* what the message of each KeyError of lines 214, 216, 226 and 234 says:
\* the file it names, the column it asks for and the equivalent headers it
\* lists as examples
Message(e) ==
  CASE e = "KeyError: present" ->
         [file |-> "Attendance", column |-> h_present,
          equivalents |-> {StrCell(<<"s","t","a","t","u","s">>),
                           StrCell(<<"a","t","t","e","n","d","e","d">>),
                           StrCell(<<"p","/","a">>)}]
    [] e = "KeyError: Attendance student_id" ->
         [file |-> "Attendance", column |-> h_student_id, equivalents |-> {}]
    [] e = "KeyError: Assessments student_id" ->
         [file |-> "Assessments", column |-> h_student_id, equivalents |-> {}]
    [] e = "KeyError: Fees student_id" ->
         [file |-> "Fees", column |-> h_student_id, equivalents |-> {}]
    [] OTHER -> [file |-> "", column |-> NullCell, equivalents |-> {}]

(* --------------------------- fuse_from_frames -------------------------- *)

\* fuse_from_frames as a function of its arguments: the table returned, or
\* the exception raised
fuse_from_frames(a, s, f, apply_raises) ==
  LET ma == auto_map_attendance(RenameBy(normalize_columns(a), DEFAULT_MAPPINGS.attendance))
      ms == auto_map_assessments(RenameBy(normalize_columns(s), DEFAULT_MAPPINGS.assessments))
      mf == auto_map_fees(RenameBy(normalize_columns(f), DEFAULT_MAPPINGS.fees))
  IN  IF ma.err # "" THEN [merged |-> NoFused, err |-> ma.err]
      ELSE IF ms.err # "" THEN [merged |-> NoFused, err |-> ms.err]
      ELSE IF mf.err # "" THEN [merged |-> NoFused, err |-> mf.err]
      ELSE LET out == aggregate_frames(ma.df, ms.df, mf.df, apply_raises)
           IN  [merged |-> out.merged, err |-> out.err]

\* frames kept from the call before and used again
NormalizeCached ==
  /\ UNCHANGED app_vars
  /\ pc = "call"
  /\ att' = IF att # NoFrame THEN att
            ELSE RenameBy(normalize_columns(attendance_df), DEFAULT_MAPPINGS.attendance)
  /\ ass' = IF ass # NoFrame THEN ass
            ELSE RenameBy(normalize_columns(assessments_df), DEFAULT_MAPPINGS.assessments)
  /\ fee' = IF fee # NoFrame THEN fee
            ELSE RenameBy(normalize_columns(fees_df), DEFAULT_MAPPINGS.fees)
  /\ pc' = "map_attendance"
  /\ UNCHANGED <<attendance_df, assessments_df, fees_df, merged, err, empty_apply_raises,
                 thresholds, scored, calls>>

\* lines 199-202: the three argument frames normalised and renamed by the
\* default mappings
Normalize ==
  /\ UNCHANGED app_vars
  /\ pc = "call"
  /\ att' = RenameBy(normalize_columns(attendance_df), DEFAULT_MAPPINGS.attendance)
  /\ ass' = RenameBy(normalize_columns(assessments_df), DEFAULT_MAPPINGS.assessments)
  /\ fee' = RenameBy(normalize_columns(fees_df), DEFAULT_MAPPINGS.fees)
  /\ pc' = "map_attendance"
  /\ attendance_df' = NormalizeLeaves(attendance_df)
  /\ assessments_df' = NormalizeLeaves(assessments_df)
  /\ fees_df' = NormalizeLeaves(fees_df)
  /\ UNCHANGED <<merged, err, empty_apply_raises, thresholds, scored, calls>>

\* line 204
MapAttendance ==
  /\ UNCHANGED app_vars
  /\ pc = "map_attendance"
  /\ \E res \in {auto_map_attendance(att)} :
         /\ att' = res.df
         /\ err' = res.err
         /\ pc' = IF res.err = "" THEN "map_assessments" ELSE "raised"
  /\ UNCHANGED <<attendance_df, assessments_df, fees_df, ass, fee, merged,
                 empty_apply_raises, thresholds, scored, calls>>

\* line 205
MapAssessments ==
  /\ UNCHANGED app_vars
  /\ pc = "map_assessments"
  /\ \E res \in {auto_map_assessments(ass)} :
         /\ ass' = res.df
         /\ err' = res.err
         /\ pc' = IF res.err = "" THEN "map_fees" ELSE "raised"
  /\ UNCHANGED <<attendance_df, assessments_df, fees_df, att, fee, merged,
                 empty_apply_raises, thresholds, scored, calls>>

\* line 206
MapFees ==
  /\ UNCHANGED app_vars
  /\ pc = "map_fees"
  /\ \E res \in {auto_map_fees(fee)} :
         /\ fee' = res.df
         /\ err' = res.err
         /\ pc' = IF res.err = "" THEN "aggregate" ELSE "raised"
  /\ UNCHANGED <<attendance_df, assessments_df, fees_df, att, ass, merged,
                 empty_apply_raises, thresholds, scored, calls>>

\* line 208: _aggregate_frames on the three mapped frames
Aggregate ==
  /\ UNCHANGED app_vars
  /\ pc = "aggregate"
  /\ \E out \in {aggregate_frames(att, ass, fee, empty_apply_raises)} :
         /\ att' = out.att
         /\ ass' = out.ass
         /\ fee' = out.fee
         /\ merged' = out.merged
         /\ err' = out.err
         /\ pc' = IF out.err = "" THEN "returned" ELSE "raised"
  /\ UNCHANGED <<attendance_df, assessments_df, fees_df, empty_apply_raises,
                 thresholds, scored, calls>>

(* ------------------------------ score_rules ---------------------------- *)

\* the names of the fields of RuleThresholds
ThresholdFields == {"min_attendance_rate", "min_avg_score", "max_balance_outstanding"}

\* the field defaults of the dataclass: 0.80, 50.0 and 0.0
default_min_attendance_rate == Rat(80, 100)

default_min_avg_score == RatOfInt(50)

default_max_balance_outstanding == RatOfInt(0)

\* a constructor that takes 0 for every field left out
RuleThresholdsZeroDefaults(kw) ==
  [min_attendance_rate |-> kw.min_attendance_rate,
   min_avg_score |-> kw.min_avg_score,
   max_balance_outstanding |-> kw.max_balance_outstanding]

\* RuleThresholds(**kw): a field left out takes its default
RuleThresholds(kw) ==
  [min_attendance_rate |->
     IF "min_attendance_rate" \in kw.given THEN kw.min_attendance_rate
     ELSE default_min_attendance_rate,
   min_avg_score |->
     IF "min_avg_score" \in kw.given THEN kw.min_avg_score ELSE default_min_avg_score,
   max_balance_outstanding |->
     IF "max_balance_outstanding" \in kw.given THEN kw.max_balance_outstanding
     ELSE default_max_balance_outstanding]

\* a thresholds dict: given are its keys, a, s and b their values (the value
\* of a key it does not have is written 0 and never read)
ThresholdsDict(given, a, s, b) ==
  [as_dict |-> TRUE, given |-> given,
   min_attendance_rate |-> IF "min_attendance_rate" \in given THEN a ELSE RatOfInt(0),
   min_avg_score |-> IF "min_avg_score" \in given THEN s ELSE RatOfInt(0),
   max_balance_outstanding |-> IF "max_balance_outstanding" \in given THEN b ELSE RatOfInt(0)]

\* the RuleThresholds object the caller builds from the same keywords; given
\* records which keywords the caller wrote
ThresholdsObject(given, a, s, b) ==
  LET o == RuleThresholds(ThresholdsDict(given, a, s, b))
  IN  [as_dict |-> FALSE, given |-> given,
       min_attendance_rate |-> o.min_attendance_rate,
       min_avg_score |-> o.min_avg_score,
       max_balance_outstanding |-> o.max_balance_outstanding]

\* RuleThresholds()
NoArguments == ThresholdsObject({}, NaN, NaN, NaN)

\* a comparison that also counts equality
LessOrEqual(x, t) == IF RatLeq(x, t) THEN 1 ELSE 0

\* (series < t).astype(int) on one value; a comparison with NaN is False
Less(x, t) == IF RatLess(x, t) THEN 1 ELSE 0

\* (series > t).astype(int) on one value
Greater(x, t) == IF RatLess(t, x) THEN 1 ELSE 0

\* bins under which one point is still Low
wide_bins == <<-1, 1, 2, 3>>

\* the bins and the labels of the pd.cut of lines 35-37
risk_bins == <<-1, 0, 1, 3>>

risk_labels == <<"Low", "Medium", "High">>

\* pd.cut(x, bins, labels) on one value: the label of the interval
\* (bins[i], bins[i+1]] that holds x, the missing value "NaN" when none does
Cut(x, bins, labels) ==
  LET here == {i \in DOMAIN labels : bins[i] < x /\ x <= bins[i + 1]}
  IN  IF here = {} THEN "NaN" ELSE labels[CHOOSE i \in here : TRUE]

\* lines 23-37 on one row
ScoreRow(row, t) ==
  LET r_attendance == Less(row.attendance_rate, t.min_attendance_rate)
      r_scores     == Less(row.avg_score, t.min_avg_score)
      r_fees       == Greater(row.balance_outstanding, t.max_balance_outstanding)
      points       == r_attendance + r_scores + r_fees
  IN  [r_attendance |-> r_attendance, r_scores |-> r_scores, r_fees |-> r_fees,
       rule_risk_points |-> points,
       rule_risk_level |-> Cut(points, risk_bins, risk_labels)] @@ row

\* the table score_rules returns; the caller's table is left as it was
\* because line 19 works on a copy
Scored(rows, has_name, has_language) ==
  [rows |-> rows, has_name |-> has_name, has_language |-> has_language]

NoScored == Scored(<<>>, FALSE, FALSE)

\* score_rules(df, thresholds)
score_rules(df, t0) ==
  LET t == IF t0.as_dict THEN RuleThresholds(t0)
           ELSE [min_attendance_rate |-> t0.min_attendance_rate,
                 min_avg_score |-> t0.min_avg_score,
                 max_balance_outstanding |-> t0.max_balance_outstanding]
  IN  Scored([i \in DOMAIN df.rows |-> ScoreRow(df.rows[i], t)],
             df.has_name, df.has_language)

\* what score_rules leaves in the caller's df: line 19 rebinds df to a copy,
\* so the five columns are added to the copy
ScoreLeaves(df) == df

\* the caller scores the fused table (rules.py, lines 15-38)
ScoreRules ==
  /\ UNCHANGED app_vars
  /\ pc = "returned"
  /\ scored' = score_rules(merged, thresholds)
  /\ merged' = ScoreLeaves(merged)
  /\ pc' = "scored"
  /\ UNCHANGED <<attendance_df, assessments_df, fees_df, att, ass, fee, err,
                 empty_apply_raises, thresholds, calls>>

Next == Normalize \/ MapAttendance \/ MapAssessments \/ MapFees \/ Aggregate \/ ScoreRules

(* ----------------------- _detect_student_language --------------------- *)

\* the dict of a row: whether it has the key student_language, and its value
StudentData(has, value) == [has |-> has, value |-> value]

\* no row given yet
NoStudent == StudentData(FALSE, NullCell)

\* bool(x) of a cell: the empty string, 0, 0.0 and False are falsy, NaN is not
Truthy(c) ==
  CASE c.k = "str" -> Len(c.s) > 0
    [] c.k = "int" -> c.n # 0
    [] c.k = "bool" -> c.n = 1
    [] c.k = "float" -> c.d = 0 \/ c.n # 0

\* lines 131-145: the languages by name, in Latin and in their own script;
\* a character outside ASCII is written as its code point
lang_mapping ==
  (<<"t","a","m","i","l">> :> "ta")
    @@ (<<"U+0BA4","U+0BAE","U+0BBF","U+0BB4","U+0BCD">> :> "ta")
    @@ (<<"h","i","n","d","i">> :> "hi")
    @@ (<<"U+0939","U+093F","U+0928","U+094D","U+0926","U+0940">> :> "hi")
    @@ (<<"U+0939","U+093F","U+0902","U+0926","U+0940">> :> "hi")
    @@ (<<"b","e","n","g","a","l","i">> :> "bn")
    @@ (<<"U+09AC","U+09BE","U+0982","U+09B2","U+09BE">> :> "bn")
    @@ (<<"t","e","l","u","g","u">> :> "te")
    @@ (<<"U+0C24","U+0C46","U+0C32","U+0C41","U+0C17","U+0C41">> :> "te")
    @@ (<<"m","a","r","a","t","h","i">> :> "mr")
    @@ (<<"U+092E","U+0930","U+093E","U+0920","U+0940">> :> "mr")
    @@ (<<"g","u","j","a","r","a","t","i">> :> "gu")
    @@ (<<"U+0A97","U+0AC1","U+0A9C","U+0AB0","U+0ABE","U+0AA4","U+0AC0">> :> "gu")
    @@ (<<"k","a","n","n","a","d","a">> :> "kn")
    @@ (<<"U+0C95","U+0CA8","U+0CCD","U+0CA8","U+0CA1">> :> "kn")
    @@ (<<"m","a","l","a","y","a","l","a","m">> :> "ml")
    @@ (<<"U+0D2E","U+0D32","U+0D2F","U+0D3E","U+0D33","U+0D02">> :> "ml")
    @@ (<<"p","u","n","j","a","b","i">> :> "pa")
    @@ (<<"U+0A2A","U+0A70","U+0A1C","U+0A3E","U+0A2C","U+0A40">> :> "pa")
    @@ (<<"u","r","d","u">> :> "ur")
    @@ (<<"U+0627","U+0631","U+062F","U+0648">> :> "ur")
    @@ (<<"n","e","p","a","l","i">> :> "ne")
    @@ (<<"U+0928","U+0947","U+092A","U+093E","U+0932","U+0940">> :> "ne")
    @@ (<<"s","i","n","h","a","l","a">> :> "si")
    @@ (<<"U+0DC3","U+0DD2","U+0D82","U+0DC4","U+0DBD">> :> "si")
    @@ (<<"e","n","g","l","i","s","h">> :> "en")
    @@ (<<"e","n">> :> "en")

\* the names compared as they are written in the row
detect_student_language_exact(d) ==
  IF d.has /\ Truthy(d.value)
  THEN LET lang == CellStr(d.value)
       IN  IF lang \in DOMAIN lang_mapping THEN lang_mapping[lang] ELSE "en"
  ELSE "en"

\* _detect_student_language(student_data)
detect_student_language(d) ==
  IF d.has /\ Truthy(d.value)
  THEN LET lang == StrLower(StrStrip(CellStr(d.value)))
       IN  IF lang \in DOMAIN lang_mapping THEN lang_mapping[lang] ELSE "en"
  ELSE "en"

\* one call of the detector on the row
DetectLanguage ==
  /\ pc = "detect"
  /\ detected_lang' = detect_student_language(student_data)
  /\ pc' = "detected"
  /\ UNCHANGED <<attendance_df, assessments_df, fees_df, att, ass, fee, merged, err,
                 empty_apply_raises, thresholds, scored, calls, model_df, loaded,
                 student_data>>

NextDetect == DetectLanguage

(* ------------------------------- load_data ----------------------------- *)

\* df.empty: no row or no column
Empty(df) == Len(df.rows) = 0 \/ Len(df.columns) = 0

\* the table load_data returns: the rows, every one with a model_risk_score
\* field (NaN without the column), and the optional columns it has
Loaded(rows, has_name, has_language, has_model) ==
  [none |-> FALSE, rows |-> rows, has_name |-> has_name, has_language |-> has_language,
   has_model |-> has_model]

\* load_data returns None
LoadedNone ==
  [none |-> TRUE, rows |-> <<>>, has_name |-> FALSE, has_language |-> FALSE,
   has_model |-> FALSE]

\* model_df before model_predict is called
NoModel == [raised |-> "not called", rows |-> <<>>]

\* the student_info file: missing or unreadable, or a table of which the
\* student_id column is kept; collides says that it has a column named
\* like a metric of the fused table
StudentInfoFiles ==
  {[available |-> FALSE, ids |-> <<>>, collides |-> FALSE]}
    \cup {[available |-> TRUE, ids |-> i, collides |-> c] :
            i \in {<<>>, <<IntCell(1)>>, <<IntCell(2), IntCell(1), IntCell(1)>>},
            c \in BOOLEAN}

RECURSIVE LeftMerge(_, _)
\* merged.merge(student_df, on="student_id", how="left") on the columns of
\* merged: a row is repeated for every row of student_df with its
\* student_id and kept once when there is none
LeftMerge(rows, ids) ==
  IF Len(rows) = 0 THEN <<>>
  ELSE LET n == Cardinality({j \in DOMAIN ids : ids[j] = rows[1].student_id})
       IN  [k \in 1..(IF n = 0 THEN 1 ELSE n) |-> rows[1]]
             \o LeftMerge(SubSeq(rows, 2, Len(rows)), ids)

\* the state of artifacts/model.pkl
Artifacts == {"missing", "unloadable", "trained"}

\* risk scores a trained regressor may give
ModelScores == {Rat(1, 4), Rat(3, 4)}

\* predict(inputs_dir): FileNotFoundError without the artifact, else the
\* student_id column of the fused table X with the scores of the model
predict(artifact, X, scores) ==
  IF artifact = "missing" THEN [raised |-> "FileNotFoundError", rows |-> <<>>]
  ELSE IF artifact = "unloadable" THEN [raised |-> "Exception in joblib.load", rows |-> <<>>]
  ELSE IF X.err # "" THEN [raised |-> X.err, rows |-> <<>>]
  ELSE [raised |-> "",
        rows |-> [i \in DOMAIN X.merged.rows |->
                    [student_id |-> X.merged.rows[i].student_id,
                     model_risk_score |-> scores[i]]]]

\* rules_df.merge(model_df, on="student_id", how="left"); the student_id
\* values of model_df are distinct
MergeModel(rules_df, m) ==
  Loaded([i \in DOMAIN rules_df.rows |->
            LET here == {j \in DOMAIN m.rows :
                           m.rows[j].student_id = rules_df.rows[i].student_id}
            IN  [model_risk_score |->
                   IF here = {} THEN NaN
                   ELSE m.rows[CHOOSE j \in here : TRUE].model_risk_score]
                  @@ rules_df.rows[i]],
         rules_df.has_name, rules_df.has_language, TRUE)

\* rules_df as load_data returns it
RulesOnly(rules_df) ==
  Loaded([i \in DOMAIN rules_df.rows |-> [model_risk_score |-> NaN] @@ rules_df.rows[i]],
         rules_df.has_name, rules_df.has_language, FALSE)

\* an exception of model_predict that reaches the handler of line 490
AfterPredictUncaught(rules_df, m) ==
  IF m.raised # "" THEN LoadedNone ELSE MergeModel(rules_df, m)

\* lines 481-488: the merged table when model_predict returned, rules_df
\* when it raised
AfterPredict(rules_df, m) ==
  IF m.raised # "" THEN RulesOnly(rules_df) ELSE MergeModel(rules_df, m)

\* lines 455-462: None when one of the three files has no row
LoadCheck ==
  /\ UNCHANGED lang_vars
  /\ pc = "load"
  /\ IF Empty(attendance_df) \/ Empty(assessments_df) \/ Empty(fees_df)
     THEN loaded' = LoadedNone /\ pc' = "loaded"
     ELSE loaded' = loaded /\ pc' = "call"
  /\ UNCHANGED <<attendance_df, assessments_df, fees_df, att, ass, fee, merged, err,
                 empty_apply_raises, thresholds, scored, calls, model_df>>

\* lines 467-478: the student info merged in when its file is there, then
\* score_rules; with a metric column in the student info the metric columns
\* of merged are renamed and score_rules raises
LoadScore ==
  /\ UNCHANGED lang_vars
  /\ pc = "returned"
  /\ \E info \in StudentInfoFiles :
       \E m \in {IF info.available /\ info.ids # <<>>
                 THEN [merged EXCEPT !.rows = LeftMerge(merged.rows, info.ids)]
                 ELSE merged} :
         /\ merged' = m
         /\ IF info.available /\ info.ids # <<>> /\ info.collides
            THEN scored' = scored /\ err' = "KeyError: attendance_rate" /\ pc' = "raised"
            ELSE scored' = score_rules(m, thresholds) /\ err' = err /\ pc' = "scored"
  /\ UNCHANGED <<attendance_df, assessments_df, fees_df, att, ass, fee,
                 empty_apply_raises, thresholds, calls, model_df, loaded>>

\* lines 480-488: model_predict on the inputs directory, and the return.
\* predict reads the files load_data read and fuses them with
\* fuse_student_level_dataset: its mappers give the mapped tables of the
\* state again, which _aggregate_frames (line 190) fuses into X
ModelPredict ==
  /\ UNCHANGED lang_vars
  /\ pc = "scored"
  /\ \E artifact \in Artifacts :
       \E X \in {aggregate_frames(att, ass, fee, empty_apply_raises)} :
         \E scores \in [DOMAIN X.merged.rows -> ModelScores] :
           \E m \in {predict(artifact, X, scores)} :
             /\ model_df' = m
             /\ loaded' = AfterPredict(scored, m)
  /\ pc' = "loaded"
  /\ UNCHANGED <<attendance_df, assessments_df, fees_df, att, ass, fee, merged, err,
                 empty_apply_raises, thresholds, scored, calls>>

\* lines 490-492: an exception of the fusion or of the scoring gives None
LoadFail ==
  /\ UNCHANGED lang_vars
  /\ pc = "raised"
  /\ loaded' = LoadedNone
  /\ pc' = "loaded"
  /\ UNCHANGED <<attendance_df, assessments_df, fees_df, att, ass, fee, merged, err,
                 empty_apply_raises, thresholds, scored, calls, model_df>>

NextLoad ==
  \/ LoadCheck \/ Normalize \/ MapAttendance \/ MapAssessments \/ MapFees \/ Aggregate
  \/ LoadScore \/ ModelPredict \/ LoadFail

(* ------------------------------ inputs -------------------------------- *)

\* the state before a call of fuse_from_frames on the caller's three frames
CallWith(a, s, f, raises, t) ==
  /\ attendance_df = a
  /\ assessments_df = s
  /\ fees_df = f
  /\ att = NoFrame
  /\ ass = NoFrame
  /\ fee = NoFrame
  /\ merged = NoFused
  /\ err = ""
  /\ pc = "call"
  /\ empty_apply_raises = raises
  /\ thresholds = t
  /\ scored = NoScored
  /\ calls = 1
  /\ model_df = NoModel
  /\ loaded = LoadedNone
  /\ student_data = NoStudent
  /\ detected_lang = ""

\* the same, the fused table to be scored under RuleThresholds()
Call(a, s, f, raises) == CallWith(a, s, f, raises, NoArguments)

\* the sequences of at most n rows drawn from Rows
RowSeqs(Rows, n) == UNION {[1..k -> Rows] : k \in 0..n}

MaxRows == 2

\* the student_id cells: two students, and the missing value
SidPool == {IntCell(1), IntCell(2), NullCell}

\* raw headers of the record-level inputs, not yet normalised
AttendanceHeaders == <<StrCell(<<"S","t","u","d","e","n","t"," ","I","D">>), StrCell(<<" ","P","r","e","s","e","n","t"," ">>)>>

AssessmentsHeaders == <<StrCell(<<"s","t","u","d","e","n","t","_","i","d">>), StrCell(<<"S","c","o","r","e">>)>>

FeesHeaders == <<StrCell(<<"I","D">>), StrCell(<<"A","m","o","u","n","t"," ","D","u","e">>), StrCell(<<"a","m","o","u","n","t"," ","p","a","i","d">>)>>

PresentData == {IntCell(1), IntCell(0), IntCell(2)}

ScoreData == {StrCell(<<"8","0">>), StrCell(<<"n","o","t","_","a","_","n","u","m","b","e","r">>), NullCell}

DueData == {IntCell(100), StrCell(<<"n","/","a">>)}

PaidData == {IntCell(150), NullCell}

AttendanceRows == {<<s, p>> : s \in SidPool, p \in PresentData}

AssessmentsRows == {<<s, x>> : s \in SidPool, x \in ScoreData}

FeesRows == {<<s, d, p>> : s \in SidPool, d \in DueData, p \in PaidData}

\* the attendance rows 1, 0, 1, 1 of one student
FourDays ==
  Frame(AttendanceHeaders, <<<<IntCell(1), IntCell(1)>>, <<IntCell(1), IntCell(0)>>,
                             <<IntCell(1), IntCell(1)>>, <<IntCell(1), IntCell(1)>>>>)

AttendanceFrames ==
  {Frame(AttendanceHeaders, rows) : rows \in RowSeqs(AttendanceRows, MaxRows)} \cup {FourDays}

AssessmentsFrames == {Frame(AssessmentsHeaders, rows) : rows \in RowSeqs(AssessmentsRows, MaxRows)}

FeesFrames == {Frame(FeesHeaders, rows) : rows \in RowSeqs(FeesRows, MaxRows)}

\* the frames with at most one row, of student 1 or student 2
FewAttendance ==
  {Frame(AttendanceHeaders, rows) :
     rows \in RowSeqs({<<IntCell(1), IntCell(1)>>, <<IntCell(2), IntCell(1)>>}, 1)}

FewAssessments ==
  {Frame(AssessmentsHeaders, rows) :
     rows \in RowSeqs({<<IntCell(1), IntCell(60)>>, <<IntCell(2), IntCell(60)>>}, 1)}

FewFees ==
  {Frame(FeesHeaders, rows) :
     rows \in RowSeqs({<<IntCell(1), IntCell(100), IntCell(30)>>,
                       <<IntCell(2), IntCell(100), IntCell(30)>>}, 1)}

\* record-level inputs: one source varies over all its frames while the two
\* others hold at most one row
Init ==
  \E raises \in BOOLEAN :
    \/ \E a \in AttendanceFrames, s \in FewAssessments, f \in FewFees : Call(a, s, f, raises)
    \/ \E a \in FewAttendance, s \in AssessmentsFrames, f \in FewFees : Call(a, s, f, raises)
    \/ \E a \in FewAttendance, s \in FewAssessments, f \in FeesFrames : Call(a, s, f, raises)

Spec == Init /\ [][Next]_vars

(* ------------------------- header-level inputs ------------------------- *)

MaxCols == 3

RECURSIVE Increasing(_, _)
\* the increasing sequences of at most k positions of 1..n
Increasing(n, k) ==
  IF k = 0 THEN {<<>>}
  ELSE LET shorter == Increasing(n, k - 1)
       IN  shorter \cup
           {Append(x[1], x[2]) :
              x \in {y \in shorter \X (1..n) :
                       /\ Len(y[1]) = k - 1
                       /\ (Len(y[1]) = 0 \/ y[1][Len(y[1])] < y[2])}}

\* the frames whose labels are at most MaxCols headers of pool, in pool
\* order, with two rows: every cell of the first row is the int 1, every
\* cell of the second the int 2
HeaderFrames(pool) ==
  {Frame([j \in DOMAIN s |-> pool[s[j]]],
         <<[j \in DOMAIN s |-> IntCell(1)], [j \in DOMAIN s |-> IntCell(2)]>>) :
     s \in Increasing(Len(pool), MaxCols)}

\* raw headers an attendance file may carry: every candidate, the canonical
\* student_language, two headers not yet normalised and a foreign one
AttendanceHeaderPool ==
  <<StrCell(<<"s","t","u","d","e","n","t","_","i","d">>),
    StrCell(<<"i","d">>),
    StrCell(<<"s","t","u","d","e","n","t">>),
    StrCell(<<"r","e","g","n","o">>),
    StrCell(<<"r","e","g","_","n","o">>),
    StrCell(<<"i","n","d","e","x","_","n","o">>),
    StrCell(<<"a","d","m","i","s","s","i","o","n","_","n","o">>),
    StrCell(<<"s","t","u","d","e","n","t","_","n","a","m","e">>),
    StrCell(<<"n","a","m","e">>),
    StrCell(<<"f","u","l","l","_","n","a","m","e">>),
    StrCell(<<"l","a","n","g","u","a","g","e">>),
    StrCell(<<"l","a","n","g">>),
    StrCell(<<"p","r","e","f","e","r","r","e","d","_","l","a","n","g","u","a","g","e">>),
    StrCell(<<"m","o","t","h","e","r","_","t","o","n","g","u","e">>),
    StrCell(<<"n","a","t","i","v","e","_","l","a","n","g","u","a","g","e">>),
    StrCell(<<"d","a","t","e">>),
    StrCell(<<"a","t","t","e","n","d","a","n","c","e","_","d","a","t","e">>),
    StrCell(<<"d","a","y">>),
    StrCell(<<"r","e","c","o","r","d","e","d","_","d","a","t","e">>),
    StrCell(<<"p","r","e","s","e","n","t">>),
    StrCell(<<"i","s","_","p","r","e","s","e","n","t">>),
    StrCell(<<"a","t","t","e","n","d","a","n","c","e">>),
    StrCell(<<"s","t","a","t","u","s">>),
    StrCell(<<"a","t","t","e","n","d","e","d">>),
    StrCell(<<"p","r","e","s","e","n","t","_","f","l","a","g">>),
    StrCell(<<"p">>),
    StrCell(<<"a","t","t","e","n","d","a","n","c","e","_","m","a","r","k">>),
    StrCell(<<"s","t","u","d","e","n","t","_","l","a","n","g","u","a","g","e">>),
    StrCell(<<"S","t","u","d","e","n","t"," ","I","D">>),
    StrCell(<<"P","R","E","S","E","N","T"," ">>),
    StrCell(<<"n","o","t","e","s">>)>>

\* raw headers an assessments file may carry
AssessmentsHeaderPool ==
  <<StrCell(<<"s","t","u","d","e","n","t","_","i","d">>),
    StrCell(<<"i","d">>),
    StrCell(<<"s","t","u","d","e","n","t">>),
    StrCell(<<"r","e","g","n","o">>),
    StrCell(<<"r","e","g","_","n","o">>),
    StrCell(<<"i","n","d","e","x","_","n","o">>),
    StrCell(<<"a","d","m","i","s","s","i","o","n","_","n","o">>),
    StrCell(<<"s","t","u","d","e","n","t","_","n","a","m","e">>),
    StrCell(<<"n","a","m","e">>),
    StrCell(<<"f","u","l","l","_","n","a","m","e">>),
    StrCell(<<"l","a","n","g","u","a","g","e">>),
    StrCell(<<"l","a","n","g">>),
    StrCell(<<"p","r","e","f","e","r","r","e","d","_","l","a","n","g","u","a","g","e">>),
    StrCell(<<"m","o","t","h","e","r","_","t","o","n","g","u","e">>),
    StrCell(<<"n","a","t","i","v","e","_","l","a","n","g","u","a","g","e">>),
    StrCell(<<"a","s","s","e","s","s","m","e","n","t","_","n","a","m","e">>),
    StrCell(<<"e","x","a","m">>),
    StrCell(<<"t","e","s","t">>),
    StrCell(<<"a","s","s","e","s","s","m","e","n","t">>),
    StrCell(<<"c","o","m","p","o","n","e","n","t">>),
    StrCell(<<"s","c","o","r","e">>),
    StrCell(<<"m","a","r","k","s">>),
    StrCell(<<"m","a","r","k">>),
    StrCell(<<"g","r","a","d","e","_","v","a","l","u","e">>),
    StrCell(<<"p","e","r","c","e","n","t","a","g","e">>),
    StrCell(<<"s","t","u","d","e","n","t","_","l","a","n","g","u","a","g","e">>),
    StrCell(<<"R","e","g"," ","N","o">>),
    StrCell(<<" ","M","a","r","k","s">>),
    StrCell(<<"n","o","t","e","s">>)>>

\* raw headers a fees file may carry
FeesHeaderPool ==
  <<StrCell(<<"s","t","u","d","e","n","t","_","i","d">>),
    StrCell(<<"i","d">>),
    StrCell(<<"s","t","u","d","e","n","t">>),
    StrCell(<<"r","e","g","n","o">>),
    StrCell(<<"r","e","g","_","n","o">>),
    StrCell(<<"i","n","d","e","x","_","n","o">>),
    StrCell(<<"a","d","m","i","s","s","i","o","n","_","n","o">>),
    StrCell(<<"s","t","u","d","e","n","t","_","n","a","m","e">>),
    StrCell(<<"n","a","m","e">>),
    StrCell(<<"f","u","l","l","_","n","a","m","e">>),
    StrCell(<<"l","a","n","g","u","a","g","e">>),
    StrCell(<<"l","a","n","g">>),
    StrCell(<<"p","r","e","f","e","r","r","e","d","_","l","a","n","g","u","a","g","e">>),
    StrCell(<<"m","o","t","h","e","r","_","t","o","n","g","u","e">>),
    StrCell(<<"n","a","t","i","v","e","_","l","a","n","g","u","a","g","e">>),
    StrCell(<<"a","m","o","u","n","t","_","d","u","e">>),
    StrCell(<<"d","u","e">>),
    StrCell(<<"f","e","e","_","d","u","e">>),
    StrCell(<<"t","o","t","a","l","_","d","u","e">>),
    StrCell(<<"a","m","o","u","n","t","_","p","a","i","d">>),
    StrCell(<<"p","a","i","d">>),
    StrCell(<<"f","e","e","_","p","a","i","d">>),
    StrCell(<<"t","o","t","a","l","_","p","a","i","d">>),
    StrCell(<<"d","u","e","_","d","a","t","e">>),
    StrCell(<<"d","e","a","d","l","i","n","e">>),
    StrCell(<<"l","a","s","t","_","d","a","t","e">>),
    StrCell(<<"d","a","t","e">>),
    StrCell(<<"s","t","u","d","e","n","t","_","l","a","n","g","u","a","g","e">>),
    StrCell(<<"I","n","d","e","x"," ","N","o">>),
    StrCell(<<"T","o","t","a","l"," ","D","u","e">>),
    StrCell(<<"n","o","t","e","s">>)>>

PlainAttendance == Frame(<<h_student_id, h_present>>, <<<<IntCell(1), IntCell(1)>>>>)

PlainAssessments == Frame(<<h_student_id, h_score>>, <<<<IntCell(1), IntCell(60)>>>>)

PlainFees ==
  Frame(<<h_student_id, h_amount_due, h_amount_paid>>, <<<<IntCell(1), IntCell(100), IntCell(30)>>>>)

\* header-level inputs: the headers of one source vary, the two other
\* sources are canonical
InitMap ==
  \/ \E a \in HeaderFrames(AttendanceHeaderPool) : Call(a, PlainAssessments, PlainFees, TRUE)
  \/ \E s \in HeaderFrames(AssessmentsHeaderPool) : Call(PlainAttendance, s, PlainFees, TRUE)
  \/ \E f \in HeaderFrames(FeesHeaderPool) : Call(PlainAttendance, PlainAssessments, f, TRUE)

SpecMap == InitMap /\ [][Next]_vars

(* ----------------------- inputs lacking columns ------------------------ *)

\* the frames of one row, every cell the int 1, under each selection of the
\* headers of pool
SubFrames(pool) ==
  {Frame([j \in DOMAIN s |-> pool[s[j]]], <<[j \in DOMAIN s |-> IntCell(1)]>>) :
     s \in Increasing(Len(pool), Len(pool))}

\* an attendance file may lack its student_id header, its present header or
\* both
LackingAttendancePool ==
  <<StrCell(<<"R","e","g"," ","N","o">>), StrCell(<<"S","t","a","t","u","s">>),
    StrCell(<<"n","o","t","e","s">>)>>

\* an assessments file may lack student_id, or carry it twice
LackingAssessmentsPool ==
  <<StrCell(<<"R","e","g"," ","N","o">>), StrCell(<<"r","e","g","_","n","o">>),
    StrCell(<<"M","a","r","k","s">>)>>

LackingFeesPool == <<StrCell(<<"I","D">>), StrCell(<<"D","u","e">>)>>

InitLacking ==
  \E a \in SubFrames(LackingAttendancePool), s \in SubFrames(LackingAssessmentsPool),
     f \in SubFrames(LackingFeesPool), raises \in BOOLEAN : Call(a, s, f, raises)

SpecLacking == InitLacking /\ [][Next]_vars

(* ----------------------- inputs with attributes ------------------------ *)

Ann == StrCell(<<"A","n","n">>)

Amy == StrCell(<<"A","m","y">>)

Bob == StrCell(<<"B","o","b">>)

Cy == StrCell(<<"C","y">>)

Di == StrCell(<<"D","i">>)

\* attendance rows of student 1 with a name and a language, with neither,
\* and with another name
NamedAttendanceRows ==
  {<<IntCell(1), IntCell(1), Ann, StrCell(<<"e","n">>)>>,
   <<IntCell(1), IntCell(1), NullCell, NullCell>>,
   <<IntCell(1), IntCell(0), Amy, NullCell>>}

NamedAssessmentsRows ==
  {<<IntCell(1), IntCell(60), Bob, NullCell>>,
   <<IntCell(1), IntCell(60), NullCell, StrCell(<<"d","e">>)>>}

\* student 2 is known to the fees file only
NamedFeesRows ==
  {<<IntCell(1), IntCell(100), IntCell(30), Cy, StrCell(<<"e","s">>)>>,
   <<IntCell(2), IntCell(100), IntCell(30), Di, NullCell>>}

\* files with a name and a language header, and the file without them
NamedAttendance ==
  {Frame(<<StrCell(<<"S","t","u","d","e","n","t"," ","I","D">>),
           StrCell(<<"S","t","a","t","u","s">>),
           StrCell(<<"F","u","l","l"," ","N","a","m","e">>),
           StrCell(<<"L","a","n","g">>)>>, rows) :
     rows \in RowSeqs(NamedAttendanceRows, MaxRows)} \cup {PlainAttendance}

NamedAssessments ==
  {Frame(<<StrCell(<<"I","D">>), StrCell(<<"M","a","r","k","s">>),
           StrCell(<<"N","a","m","e">>),
           StrCell(<<"M","o","t","h","e","r"," ","T","o","n","g","u","e">>)>>, rows) :
     rows \in RowSeqs(NamedAssessmentsRows, MaxRows)} \cup {PlainAssessments}

NamedFees ==
  {Frame(<<StrCell(<<"R","e","g"," ","N","o">>), StrCell(<<"D","u","e">>),
           StrCell(<<"P","a","i","d">>), h_student_name,
           StrCell(<<"L","a","n","g","u","a","g","e">>)>>, rows) :
     rows \in RowSeqs(NamedFeesRows, MaxRows)} \cup {PlainFees}

InitNamed ==
  \E a \in NamedAttendance, s \in NamedAssessments, f \in NamedFees :
     Call(a, s, f, FALSE)

SpecNamed == InitNamed /\ [][Next]_vars

(* ------------------------ inputs for the rules ------------------------- *)

\* the attendance of student 1 over the days given
Days(marks) ==
  Frame(AttendanceHeaders, [r \in DOMAIN marks |-> <<IntCell(1), IntCell(marks[r])>>])

\* rates 4/5, 3/4, 1/2, 1 and 0
RuleAttendance ==
  {Days(<<1, 1, 1, 1, 0>>), Days(<<1, 1, 1, 0>>), Days(<<1, 0>>), Days(<<1>>), Days(<<0>>)}

Marks(scores) ==
  Frame(AssessmentsHeaders, [r \in DOMAIN scores |-> <<IntCell(1), IntCell(scores[r])>>])

\* averages 50, 49, 51, 50 again and 99/2
RuleAssessments ==
  {Marks(<<50>>), Marks(<<49>>), Marks(<<51>>), Marks(<<40, 60>>), Marks(<<60, 39>>)}

\* balances 0, 70, 0 after an overpayment and 1, and a second student who
\* is known to the fees file only
RuleFees ==
  {Frame(FeesHeaders, <<<<IntCell(1), IntCell(100), IntCell(100)>>>>),
   Frame(FeesHeaders, <<<<IntCell(1), IntCell(100), IntCell(30)>>>>),
   Frame(FeesHeaders, <<<<IntCell(1), IntCell(100), IntCell(150)>>>>),
   Frame(FeesHeaders, <<<<IntCell(1), IntCell(100), IntCell(99)>>>>),
   Frame(FeesHeaders, <<<<IntCell(1), IntCell(100), IntCell(100)>>,
                        <<IntCell(2), IntCell(100), IntCell(30)>>>>)}

\* thresholds with any of the three fields left out, as a dict and as an
\* object; the values written are 0.75, 51 and 70
RuleThresholdInputs ==
  {ThresholdsDict(given, Rat(3, 4), RatOfInt(51), RatOfInt(70)) : given \in SUBSET ThresholdFields}
    \cup {ThresholdsObject(given, Rat(3, 4), RatOfInt(51), RatOfInt(70)) :
            given \in SUBSET ThresholdFields}

InitRules ==
  \E a \in RuleAttendance, s \in RuleAssessments, f \in RuleFees, t \in RuleThresholdInputs :
     CallWith(a, s, f, FALSE, t)

SpecRules == InitRules /\ [][Next]_vars

(* -------------------------- sequences of calls ------------------------- *)

MaxCalls == 2

\* an attendance file without a present header makes the call raise
CallAttendance ==
  {Days(<<1, 0>>), Days(<<1, 1, 1, 1, 0>>),
   Frame(<<StrCell(<<"R","e","g"," ","N","o">>)>>, <<<<IntCell(1)>>>>)}

CallAssessments == {Marks(<<49>>)}

CallFees ==
  {Frame(FeesHeaders, <<<<IntCell(1), IntCell(100), IntCell(100)>>>>),
   Frame(FeesHeaders, <<<<IntCell(1), IntCell(100), IntCell(100)>>,
                        <<IntCell(2), IntCell(100), IntCell(30)>>>>)}

CallThresholds ==
  {NoArguments, ThresholdsDict({"min_avg_score"}, Rat(3, 4), RatOfInt(40), RatOfInt(70))}

\* the caller calls again, with any tables and thresholds; what the call
\* before produced is still there
NewCall ==
  /\ UNCHANGED app_vars
  /\ pc \in {"returned", "raised", "scored"}
  /\ calls < MaxCalls
  /\ \E a \in CallAttendance, s \in CallAssessments, f \in CallFees, t \in CallThresholds :
       /\ attendance_df' = a
       /\ assessments_df' = s
       /\ fees_df' = f
       /\ thresholds' = t
  /\ pc' = "call"
  /\ calls' = calls + 1
  /\ UNCHANGED <<att, ass, fee, merged, err, scored, empty_apply_raises>>

NextCalls == Next \/ NewCall

InitCalls ==
  \E a \in CallAttendance, s \in CallAssessments, f \in CallFees, t \in CallThresholds :
     CallWith(a, s, f, FALSE, t)

SpecCalls == InitCalls /\ [][NextCalls]_vars

(* ------------------------- inputs of the normaliser -------------------- *)

\* raw headers: padded, upper-case, with inner spaces and tabs, already
\* normalised, blank, and headers that are no text
OddHeaders ==
  {StrCell(<<" ","S","t","u","d","e","n","t"," ","I","D"," ">>),
   StrCell(<<"\t","S","T","A","T","U","S","\n">>),
   StrCell(<<"F","u","l","l"," ","N","a","m","e">>),
   StrCell(<<"a"," ","b"," ","c">>),
   StrCell(<<"A","\t","B">>),
   StrCell(<<"a","l","r","e","a","d","y","_","o","k">>),
   StrCell(<<" "," ">>),
   StrCell(<<"x"," "," ","y">>),
   IntCell(7),
   NullCell}

\* attendance frames of one row under at most MaxCols of these headers, the
\* cell of column j the int j
OddFrames ==
  {Frame(hs, <<[j \in DOMAIN hs |-> IntCell(j)]>>) : hs \in RowSeqs(OddHeaders, MaxCols)}

InitNormalize == \E a \in OddFrames : Call(a, PlainAssessments, PlainFees, FALSE)

SpecNormalize == InitNormalize /\ [][Next]_vars

(* ------------------------ inputs with optional columns ----------------- *)

\* an attendance file with its two required headers and any of a name, a
\* language, a date and a foreign header
OptionalAttendancePool ==
  <<StrCell(<<"F","u","l","l"," ","N","a","m","e">>), StrCell(<<"L","a","n","g">>),
    StrCell(<<"D","a","y">>), StrCell(<<"n","o","t","e","s">>)>>

\* an assessments file may spell the language header student_language
OptionalAssessmentsPool ==
  <<StrCell(<<"N","a","m","e">>), h_student_language, StrCell(<<"E","x","a","m">>)>>

OptionalFeesPool ==
  <<h_student_name, StrCell(<<"M","o","t","h","e","r"," ","T","o","n","g","u","e">>),
    StrCell(<<"D","e","a","d","l","i","n","e">>)>>

\* the frames of required followed by any selection of the headers of pool,
\* with two rows of students 1 and 2
WithOptional(required, pool) ==
  {Frame(required.columns \o f.columns,
         [r \in 1..2 |-> [j \in DOMAIN required.columns |->
                             IF j = 1 THEN IntCell(r) ELSE required.rows[1][j]]
                          \o f.rows[1]]) :
     f \in SubFrames(pool)}

InitOptional ==
  \E a \in WithOptional(PlainAttendance, OptionalAttendancePool),
     s \in WithOptional(PlainAssessments, OptionalAssessmentsPool) \cup SubFrames(OptionalAssessmentsPool),
     f \in WithOptional(PlainFees, OptionalFeesPool) :
     Call(a, s, f, TRUE)

SpecOptional == InitOptional /\ [][Next]_vars

(* --------------------------- files of load_data ------------------------ *)

\* RuleThresholds(min_attendance_rate=0.80, min_avg_score=50.0,
\* max_balance_outstanding=0.0) of line 477
LoadThresholds == ThresholdsObject(ThresholdFields, Rat(80, 100), RatOfInt(50), RatOfInt(0))

\* the state when load_data has read its three files
LoadCall(a, s, f, raises) ==
  /\ attendance_df = a
  /\ assessments_df = s
  /\ fees_df = f
  /\ att = NoFrame
  /\ ass = NoFrame
  /\ fee = NoFrame
  /\ merged = NoFused
  /\ err = ""
  /\ pc = "load"
  /\ empty_apply_raises = raises
  /\ thresholds = LoadThresholds
  /\ scored = NoScored
  /\ calls = 1
  /\ model_df = NoModel
  /\ loaded = LoadedNone
  /\ student_data = NoStudent
  /\ detected_lang = ""

\* attendance files: two days of student 1, a file with headers only, and a
\* file without a present header
LoadAttendance ==
  {Days(<<1, 0>>), Days(<<>>),
   Frame(<<StrCell(<<"R","e","g"," ","N","o">>)>>, <<<<IntCell(1)>>>>)}

LoadAssessments == {Marks(<<49>>), Marks(<<80, 60>>)}

LoadFees ==
  {Frame(FeesHeaders, <<<<IntCell(1), IntCell(100), IntCell(100)>>>>),
   Frame(FeesHeaders, <<<<IntCell(1), IntCell(100), IntCell(100)>>,
                        <<IntCell(2), IntCell(100), IntCell(30)>>>>)}

InitLoad ==
  \E a \in LoadAttendance, s \in LoadAssessments, f \in LoadFees : LoadCall(a, s, f, FALSE)

SpecLoad == InitLoad /\ [][NextLoad]_vars

(* ------------------------ rows for the detector ------------------------ *)

\* the names of the mapping written in Latin letters
LatinNames ==
  {<<"t","a","m","i","l">>,
   <<"h","i","n","d","i">>,
   <<"b","e","n","g","a","l","i">>,
   <<"t","e","l","u","g","u">>,
   <<"m","a","r","a","t","h","i">>,
   <<"g","u","j","a","r","a","t","i">>,
   <<"k","a","n","n","a","d","a">>,
   <<"m","a","l","a","y","a","l","a","m">>,
   <<"p","u","n","j","a","b","i">>,
   <<"u","r","d","u">>,
   <<"n","e","p","a","l","i">>,
   <<"s","i","n","h","a","l","a">>,
   <<"e","n","g","l","i","s","h">>,
   <<"e","n">>}

\* the names of the mapping written in their own script
NativeNames ==
  {<<"U+0BA4","U+0BAE","U+0BBF","U+0BB4","U+0BCD">>,
   <<"U+0939","U+093F","U+0928","U+094D","U+0926","U+0940">>,
   <<"U+0939","U+093F","U+0902","U+0926","U+0940">>,
   <<"U+09AC","U+09BE","U+0982","U+09B2","U+09BE">>,
   <<"U+0C24","U+0C46","U+0C32","U+0C41","U+0C17","U+0C41">>,
   <<"U+092E","U+0930","U+093E","U+0920","U+0940">>,
   <<"U+0A97","U+0AC1","U+0A9C","U+0AB0","U+0ABE","U+0AA4","U+0AC0">>,
   <<"U+0C95","U+0CA8","U+0CCD","U+0CA8","U+0CA1">>,
   <<"U+0D2E","U+0D32","U+0D2F","U+0D3E","U+0D33","U+0D02">>,
   <<"U+0A2A","U+0A70","U+0A1C","U+0A3E","U+0A2C","U+0A40">>,
   <<"U+0627","U+0631","U+062F","U+0648">>,
   <<"U+0928","U+0947","U+092A","U+093E","U+0932","U+0940">>,
   <<"U+0DC3","U+0DD2","U+0D82","U+0DC4","U+0DBD">>}

\* str.upper and str.title on a lower-case Latin name
UpperName(s) == [i \in DOMAIN s |-> UpperChars[CHOOSE j \in DOMAIN LowerChars : LowerChars[j] = s[i]]]

TitleName(s) == [i \in DOMAIN s |-> IF i = 1 THEN UpperName(s)[1] ELSE s[i]]

\* values of the student_language column
LanguageValues ==
  {StrCell(n) : n \in LatinNames \cup NativeNames}
    \cup {StrCell(UpperName(n)) : n \in LatinNames}
    \cup {StrCell(TitleName(n)) : n \in LatinNames}
    \cup {StrCell(<<" ">> \o TitleName(n) \o <<" ", "\n">>) : n \in LatinNames}
    \cup {StrCell(<<>>), StrCell(<<" ">>), StrCell(<<"f","r","e","n","c","h">>),
          StrCell(<<"t","a">>), StrCell(<<"T","a","m","i","l"," ","N","a","d","u">>),
          StrCell(<<"n","a","n">>), StrCell(<<"h","i","n","d","i","!">>),
          IntCell(0), IntCell(1), BoolCell(TRUE), BoolCell(FALSE),
          FloatCell(RatOfInt(0)), FloatCell(RatOfInt(1)), NullCell}

\* the state when a row is handed to the detector
DetectCall(d) ==
  /\ attendance_df = NoFrame
  /\ assessments_df = NoFrame
  /\ fees_df = NoFrame
  /\ att = NoFrame
  /\ ass = NoFrame
  /\ fee = NoFrame
  /\ merged = NoFused
  /\ err = ""
  /\ pc = "detect"
  /\ empty_apply_raises = FALSE
  /\ thresholds = LoadThresholds
  /\ scored = NoScored
  /\ calls = 1
  /\ model_df = NoModel
  /\ loaded = LoadedNone
  /\ student_data = d
  /\ detected_lang = ""

InitDetect ==
  \E d \in {StudentData(TRUE, v) : v \in LanguageValues} \cup {NoStudent} : DetectCall(d)

SpecDetect == InitDetect /\ [][NextDetect]_vars

(* ------------------- identifiers as numbers and as text ---------------- *)

\* the identifier 1 as a number and as text, and two other identifiers
IdPool == {IntCell(1), StrCell(<<"1">>), IntCell(2), StrCell(<<"A","7">>)}

IdAttendance ==
  {Frame(<<h_student_id, h_present>>, [r \in DOMAIN ids |-> <<ids[r], IntCell(1)>>]) :
     ids \in [1..1 -> IdPool] \cup [1..2 -> IdPool]}

IdAssessments ==
  {Frame(<<h_student_id, h_score>>, <<<<id, IntCell(60)>>>>) : id \in IdPool}

IdFees ==
  {Frame(<<h_student_id, h_amount_due, h_amount_paid>>, <<<<id, IntCell(100), IntCell(30)>>>>) :
     id \in IdPool}

InitIds ==
  \E a \in IdAttendance, s \in IdAssessments, f \in IdFees : Call(a, s, f, FALSE)

SpecIds == InitIds /\ [][Next]_vars

(* ------------------ assessments files with a name header -------------- *)

h_name == StrCell(<<"n","a","m","e">>)

\* headers an assessments file may carry beside student_id and score: the
\* candidates of student_name and those of assessment_name
NameHeaderPool ==
  <<StrCell(<<"N","a","m","e">>), h_student_name, StrCell(<<"F","u","l","l"," ","N","a","m","e">>),
    h_assessment_name, StrCell(<<"E","x","a","m">>), StrCell(<<"t","e","s","t">>),
    StrCell(<<"A","s","s","e","s","s","m","e","n","t">>),
    StrCell(<<"c","o","m","p","o","n","e","n","t">>)>>

\* the cell under each header of the pool
NameHeaderCells ==
  <<StrCell(<<"A","n","n">>), StrCell(<<"B","o","b">>), StrCell(<<"C","y">>),
    StrCell(<<"q","1">>), StrCell(<<"q","2">>), StrCell(<<"q","3">>),
    StrCell(<<"q","4">>), StrCell(<<"q","5">>)>>

NameFrames ==
  {Frame(<<h_student_id, h_score>> \o [j \in DOMAIN s |-> NameHeaderPool[s[j]]],
         <<<<IntCell(1), IntCell(60)>> \o [j \in DOMAIN s |-> NameHeaderCells[s[j]]]>>) :
     s \in Increasing(Len(NameHeaderPool), Len(NameHeaderPool))}

InitNameHeader == \E s \in NameFrames : Call(PlainAttendance, s, PlainFees, TRUE)

SpecNameHeader == InitNameHeader /\ [][Next]_vars

(* ---------------------- a student of the fees file only --------------- *)

\* student 1 has paid; student 2, whom attendance and assessments do not
\* know, owes nothing, owes 70, or has paid too much
FeesOnlyFees ==
  {Frame(FeesHeaders, <<<<IntCell(1), IntCell(100), IntCell(100)>>,
                        <<IntCell(2), IntCell(100), IntCell(paid)>>>>) :
     paid \in {100, 30, 150}}

\* thresholds of the caller, zero among them, and the defaults
FeesOnlyThresholds ==
  {ThresholdsObject(ThresholdFields, a, s, b) :
     a \in {RatOfInt(0), Rat(1, 100), Rat(3, 4), RatOfInt(1)},
     s \in {RatOfInt(0), RatOfInt(1), RatOfInt(50)},
     b \in {RatOfInt(0), RatOfInt(70)}}
    \cup {ThresholdsDict(ThresholdFields, Rat(1, 2), RatOfInt(40), RatOfInt(1000)), NoArguments}

InitFeesOnly ==
  \E a \in {Days(<<1, 0>>), Days(<<1>>)}, s \in {Marks(<<49>>), Marks(<<80>>)},
     f \in FeesOnlyFees, t \in FeesOnlyThresholds :
     CallWith(a, s, f, FALSE, t)

SpecFeesOnly == InitFeesOnly /\ [][Next]_vars

(* --------------------- files with unidentified rows -------------------- *)

\* attendance rows of students 1 and 2 and rows without student_id
UnidentifiedAttendance ==
  {Frame(AttendanceHeaders, rows) :
     rows \in RowSeqs({<<NullCell, IntCell(1)>>, <<IntCell(1), IntCell(0)>>,
                       <<IntCell(1), IntCell(1)>>, <<IntCell(2), IntCell(1)>>}, MaxRows)}

UnidentifiedAssessments ==
  {Frame(AssessmentsHeaders, rows) :
     rows \in RowSeqs({<<NullCell, IntCell(60)>>, <<IntCell(1), IntCell(60)>>}, 1)}

\* fee rows of student 1 and fee rows without student_id: a file of the
\* latter alone has no identified row at all
UnidentifiedFees ==
  {Frame(FeesHeaders, rows) :
     rows \in RowSeqs({<<NullCell, IntCell(100), IntCell(30)>>,
                       <<IntCell(1), IntCell(100), IntCell(30)>>}, MaxRows)}

InitUnidentified ==
  \E raises \in BOOLEAN :
    \E a \in UnidentifiedAttendance, s \in UnidentifiedAssessments, f \in UnidentifiedFees :
      Call(a, s, f, raises)

SpecUnidentified == InitUnidentified /\ [][Next]_vars

(* ------------------------- files in any row order ---------------------- *)

\* the number of rows of the file that varies
OrderLen == 3

\* attendance rows of students 1 and 2: present under one name, absent
\* under another and absent without a name
OrderAttendanceRows ==
  {<<IntCell(id), x[1], x[2]>> :
     id \in {1, 2}, x \in {<<IntCell(1), Ann>>, <<IntCell(0), Amy>>, <<IntCell(0), NullCell>>}}

OrderAssessmentsRows ==
  {<<IntCell(id), x, n>> :
     id \in {1, 2}, x \in {IntCell(60), StrCell(<<"n","/","a">>)}, n \in {Bob}}

OrderFeesRows ==
  {<<IntCell(id), IntCell(100), x, n>> :
     id \in {1, 2}, x \in {IntCell(30), IntCell(150)}, n \in {Cy}}

OrderAttendance ==
  {Frame(<<h_student_id, h_present, h_student_name>>, rows) :
     rows \in [1..OrderLen -> OrderAttendanceRows]}

OrderAssessments ==
  {Frame(<<h_student_id, h_score, h_student_name>>, rows) :
     rows \in [1..OrderLen -> OrderAssessmentsRows]}

OrderFees ==
  {Frame(<<h_student_id, h_amount_due, h_amount_paid, h_student_name>>, rows) :
     rows \in [1..OrderLen -> OrderFeesRows]}

\* one file varies over its rows in every order, the two others are fixed
InitOrder ==
  \/ \E a \in OrderAttendance : Call(a, PlainAssessments, PlainFees, FALSE)
  \/ \E s \in OrderAssessments : Call(PlainAttendance, s, PlainFees, FALSE)
  \/ \E f \in OrderFees : Call(PlainAttendance, PlainAssessments, f, FALSE)

SpecOrder == InitOrder /\ [][Next]_vars

(* -------------------- tables given to _aggregate_frames ---------------- *)

\* _aggregate_frames alone: the three tables of the state are its arguments
NextAggregate == Aggregate

\* the state when _aggregate_frames is called on the tables a, s and f
AggregateCall(a, s, f, raises) ==
  /\ attendance_df = NoFrame
  /\ assessments_df = NoFrame
  /\ fees_df = NoFrame
  /\ att = a
  /\ ass = s
  /\ fee = f
  /\ merged = NoFused
  /\ err = ""
  /\ pc = "aggregate"
  /\ empty_apply_raises = raises
  /\ thresholds = NoArguments
  /\ scored = NoScored
  /\ calls = 1
  /\ model_df = NoModel
  /\ loaded = LoadedNone
  /\ student_data = NoStudent
  /\ detected_lang = ""

\* attendance tables with canonical headers: present as a number, as text
\* and missing
DirectAttendance ==
  {Frame(<<h_student_id, h_present>>, <<<<IntCell(id), p>>>>) :
     id \in {1, 2}, p \in {IntCell(1), IntCell(0), StrCell(<<"1">>), NullCell}}

\* assessments tables with a score as a float, as an int and as text, and
\* without a score column
DirectAssessments ==
  {Frame(<<h_student_id, h_score>>, <<<<IntCell(1), x>>>>) :
     x \in {FloatCell(RatOfInt(60)), IntCell(60), StrCell(<<"8","0">>)}}
    \cup {Frame(<<h_student_id>>, <<<<IntCell(1)>>>>)}

\* fees tables with both amounts as floats, as ints, and without amount_paid
DirectFees ==
  {Frame(<<h_student_id, h_amount_due, h_amount_paid>>,
         <<<<IntCell(1), FloatCell(RatOfInt(100)), FloatCell(RatOfInt(30))>>>>),
   Frame(<<h_student_id, h_amount_due, h_amount_paid>>,
         <<<<IntCell(1), IntCell(100), IntCell(30)>>>>),
   Frame(<<h_student_id, h_amount_due>>, <<<<IntCell(1), FloatCell(RatOfInt(100))>>>>)}

InitAggregate ==
  \E a \in DirectAttendance, s \in DirectAssessments, f \in DirectFees, raises \in BOOLEAN :
     AggregateCall(a, s, f, raises)

SpecAggregate == InitAggregate /\ [][NextAggregate]_vars

(* -------------------------- cell-level inputs -------------------------- *)

\* cells of a present column that stand for "present"
PresentOnes ==
  {StrCell(<<"1">>),
   StrCell(<<"t","r","u","e">>),
   StrCell(<<"y","e","s">>),
   StrCell(<<"y">>),
   StrCell(<<"p">>),
   StrCell(<<"T","R","U","E">>),
   StrCell(<<" ","Y","e","s"," ">>),
   StrCell(<<"P">>),
   IntCell(1), BoolCell(TRUE)}

\* cells of a present column that do not
PresentZeros ==
  {StrCell(<<"0">>),
   StrCell(<<"f","a","l","s","e">>),
   StrCell(<<"n","o">>),
   StrCell(<<"n">>),
   StrCell(<<"a">>),
   StrCell(<<"N","o">>),
   StrCell(<<"A"," ">>),
   StrCell(<<>>),
   StrCell(<<"a","b","s","e","n","t">>),
   StrCell(<<"p","r","e","s","e","n","t">>),
   StrCell(<<"1",".","0">>),
   StrCell(<<"2">>),
   StrCell(<<"t">>),
   StrCell(<<" ">>),
   IntCell(0), IntCell(2), BoolCell(FALSE), FloatCell(RatOfInt(1)), NullCell}

\* attendance frames of one or two rows of student 1 with any of these cells
TokenFrames ==
  {Frame(<<h_student_id, StrCell(<<"s","t","a","t","u","s">>)>>, rows) :
     rows \in {<<<<IntCell(1), c>>>> : c \in PresentOnes \cup PresentZeros}
            \cup {<<<<IntCell(1), c>>, <<IntCell(1), d>>>> :
                    c \in PresentOnes \cup PresentZeros, d \in PresentOnes \cup PresentZeros}}

InitTokens ==
  \E a \in TokenFrames, raises \in BOOLEAN : Call(a, PlainAssessments, PlainFees, raises)

SpecTokens == InitTokens /\ [][Next]_vars

(* ==================== properties of the fused table ==================== *)

Returned == pc = "returned"

Zero == RatOfInt(0)

\* the student_id values of a record-level input: the non-null cells of its
\* first column
RawSids(df) == {df.rows[r][1] : r \in DOMAIN df.rows} \ {NullCell}

\* the rows of a record-level input that belong to student sid
RawRows(df, sid) == {r \in DOMAIN df.rows : df.rows[r][1] = sid}

AllRawSids == RawSids(attendance_df) \cup RawSids(assessments_df) \cup RawSids(fees_df)

FusedSids == {merged.rows[i].student_id : i \in DOMAIN merged.rows}

\* the number a record-level cell stands for: the written numbers, and 0
\* for the missing value and for text that is no number
ExpectedNumber(c) ==
  IF c = StrCell(<<"8","0">>) THEN 80 ELSE IF c.k = "int" THEN c.n ELSE 0

RECURSIVE ExpectedSum(_, _, _)
\* the sum of ExpectedNumber over column col of the rows R of df
ExpectedSum(df, R, col) ==
  IF R = {} THEN 0
  ELSE LET r == CHOOSE x \in R : TRUE
       IN  ExpectedNumber(df.rows[r][col]) + ExpectedSum(df, R \ {r}, col)

\* C1: the student_id values of the fused table are exactly the union of
\* the student_id values of the three sources, each in exactly one row
C1_OuterJoinComplete ==
  Returned =>
    /\ FusedSids = AllRawSids
    /\ \A i, j \in DOMAIN merged.rows :
         merged.rows[i].student_id = merged.rows[j].student_id => i = j

C1_Witness ==
  /\ Returned
  /\ Len(merged.rows) = 2
  /\ RawSids(attendance_df) = {IntCell(1)}
  /\ RawSids(assessments_df) = {}
  /\ RawSids(fees_df) = {IntCell(2)}

\* C2: a student missing from a source has that source's metrics zero, and
\* the metrics of the sources the student is in are those of the per-source
\* aggregate
C2_ZeroFilled ==
  Returned =>
    \A i \in DOMAIN merged.rows :
      LET row == merged.rows[i]
          sid == row.student_id
      IN  /\ IF sid \in RawSids(attendance_df)
             THEN row.attendance_rate = RowOf(AttendanceAgg(att), sid).attendance_rate
             ELSE row.attendance_rate = Zero
          /\ IF sid \in RawSids(assessments_df)
             THEN row.avg_score = RowOf(AssessmentsAgg(ass), sid).avg_score
             ELSE row.avg_score = Zero
          /\ IF sid \in RawSids(fees_df)
             THEN row.balance_outstanding = RowOf(FeesAgg(fee), sid).balance_outstanding
             ELSE row.balance_outstanding = Zero

\* a student of the fees source only: zero attendance and score, the balance
\* of the fee line
C2_Witness ==
  /\ Returned
  /\ IntCell(2) \in RawSids(fees_df) \ (RawSids(attendance_df) \cup RawSids(assessments_df))
  /\ \E i \in DOMAIN merged.rows :
       /\ merged.rows[i].student_id = IntCell(2)
       /\ merged.rows[i].attendance_rate = Zero
       /\ merged.rows[i].avg_score = Zero
       /\ merged.rows[i].balance_outstanding = RatOfInt(70)

\* C3: attendance_rate is a number in [0, 1] in every fused row, and 0 for a
\* student without attendance rows
C3_RateInUnitInterval ==
  Returned =>
    \A i \in DOMAIN merged.rows :
      LET rate == merged.rows[i].attendance_rate
      IN  /\ ~IsNaN(rate)
          /\ RatLeq(Zero, rate)
          /\ RatLeq(rate, RatOfInt(1))
          /\ RawRows(attendance_df, merged.rows[i].student_id) = {} => rate = Zero

\* a student all of whose attendance cells are the number 2
C3_Witness ==
  /\ Returned
  /\ \E i \in DOMAIN merged.rows :
       LET R == RawRows(attendance_df, merged.rows[i].student_id)
       IN  /\ Cardinality(R) = 2
           /\ \A r \in R : attendance_df.rows[r][2] = IntCell(2)
           /\ merged.rows[i].attendance_rate = Zero

\* C4: attendance_rate is the number of the student's attendance rows whose
\* coerced present is 1, divided by the number of the student's rows
C4_RateIsPresentOverTotal ==
  Returned =>
    \A i \in DOMAIN merged.rows :
      LET sid   == merged.rows[i].student_id
          rate  == merged.rows[i].attendance_rate
          total == {r \in DOMAIN att.rows : Series(att, h_student_id)[r] = sid}
          here  == {r \in total : Series(att, h_present)[r] = IntCell(1)}
      IN  total # {} =>
            /\ rate[2] > 0
            /\ rate[1] * Cardinality(total) = Cardinality(here) * rate[2]

\* present 1, 0, 1, 1 gives 0.75
C4_Witness ==
  /\ Returned
  /\ attendance_df = FourDays
  /\ \E i \in DOMAIN merged.rows :
       merged.rows[i].student_id = IntCell(1) /\ merged.rows[i].attendance_rate = <<3, 4>>

\* C5: balance_outstanding is max(0, total due - total paid) over all the
\* fee lines of the student, and is negative in no row
C5_BalanceClampedOnTotals ==
  Returned =>
    \A i \in DOMAIN merged.rows :
      LET sid  == merged.rows[i].student_id
          R    == RawRows(fees_df, sid)
          owed == ExpectedSum(fees_df, R, 2) - ExpectedSum(fees_df, R, 3)
      IN  /\ RatLeq(Zero, merged.rows[i].balance_outstanding)
          /\ R # {} => merged.rows[i].balance_outstanding =
                         RatOfInt(IF owed < 0 THEN 0 ELSE owed)

\* an overpaid line (100 due, 150 paid) and an unpaid line (100 due): 50
C5_Witness ==
  /\ Returned
  /\ \E i \in DOMAIN merged.rows :
       LET R == RawRows(fees_df, merged.rows[i].student_id)
       IN  /\ \E r \in R : fees_df.rows[r][2] = IntCell(100) /\ fees_df.rows[r][3] = IntCell(150)
           /\ \E r \in R : fees_df.rows[r][2] = IntCell(100) /\ fees_df.rows[r][3] = NullCell
           /\ merged.rows[i].balance_outstanding = RatOfInt(50)

\* C7: a cell of score, amount_due or amount_paid that is no number counts
\* as 0.0 and as a row: avg_score is the mean over all the student's rows,
\* the totals are the sums, no metric is null, and no such cell makes the
\* call raise
C7_UnparseableCountsAsZero ==
  /\ Returned =>
       \A i \in DOMAIN merged.rows :
         LET row == merged.rows[i]
             sid == row.student_id
             A   == RawRows(assessments_df, sid)
             F   == RawRows(fees_df, sid)
         IN  /\ ~IsNaN(row.avg_score)
             /\ A # {} => row.avg_score[1] * Cardinality(A)
                            = ExpectedSum(assessments_df, A, 2) * row.avg_score[2]
             /\ F # {} => /\ row.amount_due_total = RatOfInt(ExpectedSum(fees_df, F, 2))
                          /\ row.amount_paid_total = RatOfInt(ExpectedSum(fees_df, F, 3))
  /\ pc = "raised" => RawSids(fees_df) = {} /\ empty_apply_raises

\* scores "80" and "not_a_number" give 40.0
C7_Witness ==
  /\ Returned
  /\ \E i \in DOMAIN merged.rows :
       LET A == RawRows(assessments_df, merged.rows[i].student_id)
       IN  /\ \E r \in A : assessments_df.rows[r][2] = StrCell(<<"8","0">>)
           /\ \E r \in A : assessments_df.rows[r][2] = StrCell(<<"n","o","t","_","a","_","n","u","m","b","e","r">>)
           /\ merged.rows[i].avg_score = RatOfInt(40)


(* ======================= properties of the mappers ===================== *)

\* the normalised headers of a caller's frame, in column order
Norm(df) == [j \in DOMAIN df.columns |-> NormalizeHeader(df.columns[j])]

Labels(X) == {X[j] : j \in DOMAIN X}

InList(L, h) == \E i \in DOMAIN L : L[i] = h

\* h is in L, labels a column of X, and no candidate before it in L does
FirstPresent(X, L, h) ==
  LET labels == Labels(X)
  IN  /\ h \in labels
      /\ \E i \in DOMAIN L : L[i] = h /\ \A k \in 1..(i - 1) : L[k] \notin labels

\* the logical fields of each mapper, in the order the mapper resolves them:
\* <<candidates in priority order, canonical name>>
AttendanceFields ==
  << <<student_id_cands, h_student_id>>, <<student_name_cands, h_student_name>>,
     <<student_language_cands, h_student_language>>, <<date_cands, h_date>>,
     <<present_cands, h_present>> >>

AssessmentsFields ==
  << <<student_id_cands, h_student_id>>, <<student_name_cands, h_student_name>>,
     <<student_language_cands, h_student_language>>,
     <<assessment_name_cands, h_assessment_name>>, <<score_cands, h_score>> >>

FeesFields ==
  << <<student_id_cands, h_student_id>>, <<student_name_cands, h_student_name>>,
     <<student_language_cands, h_student_language>>, <<amount_due_cands, h_amount_due>>,
     <<amount_paid_cands, h_amount_paid>>, <<due_date_cands, h_due_date>> >>

\* the mapped frame Y of the normalised headers X: for every field, the
\* first candidate present is relabelled with the canonical name and every
\* other candidate present keeps its header
FirstWinsOthersKept(X, Y, Fields) ==
  \A f \in DOMAIN Fields : \A j \in DOMAIN X :
    InList(Fields[f][1], X[j]) =>
      IF FirstPresent(X, Fields[f][1], X[j])
      THEN Y[j] = Fields[f][2]
      ELSE Y[j] = X[j]

\* a field resolved before field f took column j
Taken(X, Fields, f, j) ==
  \E g \in 1..(f - 1) : FirstPresent(X, Fields[g][1], X[j])

\* the headers field f still finds: those no earlier field took
Remaining(X, Fields, f) ==
  [j \in {i \in DOMAIN X : ~Taken(X, Fields, f, i)} |-> X[j]]

\* as FirstWinsOthersKept, the fields taken in the mapper's order: a field
\* sees the headers the earlier fields left, and a candidate that is not the
\* first of a field keeps its header unless a later field takes it
FirstWinsInFieldOrder(X, Y, Fields) ==
  \A f \in DOMAIN Fields : \A j \in DOMAIN X :
    (InList(Fields[f][1], X[j]) /\ ~Taken(X, Fields, f, j)) =>
      IF FirstPresent(Remaining(X, Fields, f), Fields[f][1], X[j])
      THEN Y[j] = Fields[f][2]
      ELSE /\ Y[j] # Fields[f][2]
           /\ \/ Y[j] = X[j]
              \/ \E g \in (f + 1)..Len(Fields) :
                   /\ FirstPresent(Remaining(X, Fields, g), Fields[g][1], X[j])
                   /\ Y[j] = Fields[g][2]

\* C6: every cell of the present column becomes the int 1 when its trimmed,
\* lower-cased text is one of 1, true, yes, y, p, and the int 0 otherwise;
\* the coercion never raises
C6_PresentTokenTable ==
  pc \notin {"call", "map_attendance"} =>
    /\ err = ""
    /\ \A r \in DOMAIN attendance_df.rows :
         Series(att, h_present)[r] =
           IntCell(IF attendance_df.rows[r][2] \in PresentOnes THEN 1 ELSE 0)

\* " Yes " is coerced to 1 and "1.0" to 0
C6_Witness ==
  /\ pc = "map_assessments"
  /\ attendance_df.rows = << <<IntCell(1), StrCell(<<" ","Y","e","s"," ">>)>>, <<IntCell(1), StrCell(<<"1",".","0">>)>> >>
  /\ Series(att, h_present) = <<IntCell(1), IntCell(0)>>

\* C8 as stated: per field only the first candidate present is renamed to
\* the canonical name, and the lower-priority candidates present keep their
\* original header
C8_FirstWinsOthersKept ==
  /\ pc = "map_assessments" => FirstWinsOthersKept(Norm(attendance_df), att.columns, AttendanceFields)
  /\ pc = "map_fees" => FirstWinsOthersKept(Norm(assessments_df), ass.columns, AssessmentsFields)
  /\ pc = "aggregate" => FirstWinsOthersKept(Norm(fees_df), fee.columns, FeesFields)

\* C8 amended: per field the first candidate present among the headers the
\* earlier fields left is renamed to the canonical name; a lower-priority
\* candidate is never given that name and keeps its header unless a later
\* field takes it (the header name in the assessments mapper)
C8_FirstWinsInFieldOrder ==
  /\ pc = "map_assessments" => FirstWinsInFieldOrder(Norm(attendance_df), att.columns, AttendanceFields)
  /\ pc = "map_fees" => FirstWinsInFieldOrder(Norm(assessments_df), ass.columns, AssessmentsFields)
  /\ pc = "aggregate" => FirstWinsInFieldOrder(Norm(fees_df), fee.columns, FeesFields)

\* an assessments table with the headers student_name and name: name, a
\* lower-priority candidate of student_name, becomes assessment_name
C8_Witness ==
  /\ pc = "map_fees"
  /\ Norm(assessments_df) = <<h_student_name, StrCell(<<"n","a","m","e">>)>>
  /\ ass.columns = <<h_student_name, h_assessment_name, h_score>>

CanonicalNames ==
  {h_student_id, h_student_name, h_student_language, h_date, h_present,
   h_assessment_name, h_score, h_amount_due, h_amount_paid, h_due_date}

\* no canonical name labels two columns of Y when the headers X are distinct
OnePerCanonicalName(X, Y) ==
  (\A i, j \in DOMAIN X : X[i] = X[j] => i = j) =>
    \A c \in CanonicalNames : Cardinality({j \in DOMAIN Y : Y[j] = c}) <= 1

\* C9: after mapping a table whose normalised headers are pairwise distinct,
\* no canonical name labels more than one column, in each of the mappers
C9_OneColumnPerCanonicalName ==
  /\ pc = "map_assessments" => OnePerCanonicalName(Norm(attendance_df), att.columns)
  /\ pc = "map_fees" => OnePerCanonicalName(Norm(assessments_df), ass.columns)
  /\ pc = "aggregate" => OnePerCanonicalName(Norm(fees_df), fee.columns)

\* no candidate of the list labels a column of the caller's frame
NoCandidate(df, cands) ==
  LET labels == Labels(Norm(df))
  IN  \A i \in DOMAIN cands : cands[i] \notin labels

\* df has exactly one column labelled h, 0.0 in every row
ZeroColumn(df, h) ==
  /\ Cardinality(ColIdx(df, h)) = 1
  /\ \A r \in DOMAIN df.rows : Series(df, h)[r] = FloatCell(Zero)

\* the fused rows of the students of the mapped frame df
RowsOfSource(df) ==
  {i \in DOMAIN merged.rows :
     \E r \in DOMAIN df.rows : Series(df, h_student_id)[r] = merged.rows[i].student_id}

\* C10: without a candidate header for score, amount_due or amount_paid the
\* mapper raises nothing and adds the column with 0.0 in every row, and the
\* students of that source get avg_score 0.0, a due or paid total of 0
C10_MissingMeasureSynthesized ==
  /\ pc = "map_fees" =>
       (NoCandidate(assessments_df, score_cands) => ZeroColumn(ass, h_score))
  /\ pc = "aggregate" =>
       /\ NoCandidate(fees_df, amount_due_cands) => ZeroColumn(fee, h_amount_due)
       /\ NoCandidate(fees_df, amount_paid_cands) => ZeroColumn(fee, h_amount_paid)
  /\ err = "TypeError in _auto_map_assessments" => ~NoCandidate(assessments_df, score_cands)
  /\ err = "TypeError in _auto_map_fees" =>
       ~(NoCandidate(fees_df, amount_due_cands) /\ NoCandidate(fees_df, amount_paid_cands))
  /\ Returned =>
       /\ NoCandidate(assessments_df, score_cands) =>
            \A i \in RowsOfSource(ass) : merged.rows[i].avg_score = Zero
       /\ NoCandidate(fees_df, amount_due_cands) =>
            \A i \in RowsOfSource(fee) : merged.rows[i].amount_due_total = Zero
       /\ NoCandidate(fees_df, amount_paid_cands) =>
            \A i \in RowsOfSource(fee) : merged.rows[i].amount_paid_total = Zero

\* a fees table with a student_id header only: both totals are 0 for its
\* two students
C10_Witness ==
  /\ Returned
  /\ Norm(fees_df) = <<h_student_id>>
  /\ \E i \in DOMAIN merged.rows :
       /\ merged.rows[i].student_id = IntCell(2)
       /\ merged.rows[i].amount_due_total = Zero
       /\ merged.rows[i].amount_paid_total = Zero
       /\ merged.rows[i].balance_outstanding = Zero

(* ======================= properties of the errors ====================== *)

MapperErrors ==
  {"AttributeError in _auto_map_attendance", "TypeError in _auto_map_assessments",
   "TypeError in _auto_map_fees"}

\* _aggregate_frames was called and has returned or raised
Aggregated == pc \in {"returned", "scored"} \/ (pc = "raised" /\ err \notin MapperErrors)

\* the error raised names the file and the column
Names(file, column) ==
  /\ pc = "raised"
  /\ merged = NoFused
  /\ Message(err).file = file
  /\ Message(err).column = column

\* one column of the mapped frame is labelled h
One(df, h) == Cardinality(ColIdx(df, h)) = 1

\* C11 as stated: whichever source lacks student_id after mapping, the error
\* names that source and the student_id column
C11_MissingIdNamesItsSource ==
  Aggregated =>
    /\ ~HasCol(att, h_student_id) => Names("Attendance", h_student_id)
    /\ ~HasCol(ass, h_student_id) => Names("Assessments", h_student_id)
    /\ ~HasCol(fee, h_student_id) => Names("Fees", h_student_id)

\* C11: when a source lacks student_id after mapping no fused table is
\* returned, and the error names that source and student_id when every
\* earlier check passed: attendance has a present column; for assessments,
\* attendance also has one student_id column; for fees, assessments has one
\* too
C11_FirstMissingIdIsNamed ==
  Aggregated =>
    /\ (~HasCol(att, h_student_id) \/ ~HasCol(ass, h_student_id) \/ ~HasCol(fee, h_student_id))
         => (pc = "raised" /\ merged = NoFused)
    /\ (HasCol(att, h_present) /\ ~HasCol(att, h_student_id))
         => Names("Attendance", h_student_id)
    /\ (HasCol(att, h_present) /\ One(att, h_student_id) /\ ~HasCol(ass, h_student_id))
         => Names("Assessments", h_student_id)
    /\ (HasCol(att, h_present) /\ One(att, h_student_id) /\ One(ass, h_student_id)
          /\ ~HasCol(fee, h_student_id))
         => Names("Fees", h_student_id)

\* the fees file carries only a due header while attendance and assessments
\* are complete: the error names Fees and student_id
C11_Witness ==
  /\ Names("Fees", h_student_id)
  /\ HasCol(att, h_present) /\ One(att, h_student_id) /\ One(ass, h_student_id)
  /\ ~HasCol(fee, h_student_id)
  /\ Norm(fees_df) = <<StrCell(<<"d","u","e">>)>>

\* C12: when no header of the attendance table is a candidate of present,
\* neither the mapper nor the aggregator adds a present column, and the
\* aggregator raises the error that asks for present, not the student_id
\* error, lists accepted headers (status, attended) and returns no table
C12_MissingPresentIsFatal ==
  NoCandidate(attendance_df, present_cands) =>
    /\ pc \notin {"call", "map_attendance"} => ~HasCol(att, h_present)
    /\ pc \notin {"returned", "scored"}
    /\ Aggregated =>
         /\ Names("Attendance", h_present)
         /\ err # "KeyError: Attendance student_id"
         /\ Message(err) # Message("KeyError: Attendance student_id")
         /\ \E h \in Message(err).equivalents : InList(present_cands, h)
         /\ merged.rows = <<>>

\* an attendance table with student_id and no present header was refused
C12_Witness ==
  /\ Aggregated
  /\ Norm(attendance_df) = <<StrCell(<<"r","e","g","_","n","o">>), StrCell(<<"n","o","t","e","s">>)>>
  /\ att.columns = <<h_student_id, StrCell(<<"n","o","t","e","s">>)>>
  /\ err = "KeyError: present"

(* ===================== properties of the attributes ==================== *)

NameHeaders ==
  {StrCell(<<"F","u","l","l"," ","N","a","m","e">>), StrCell(<<"N","a","m","e">>),
   h_student_name}

LanguageHeaders ==
  {StrCell(<<"L","a","n","g">>),
   StrCell(<<"M","o","t","h","e","r"," ","T","o","n","g","u","e">>),
   StrCell(<<"L","a","n","g","u","a","g","e">>)}

\* the caller's frame has one of the headers H
Carries(df, H) == \E j \in DOMAIN df.columns : df.columns[j] \in H

\* the first non-null cell, in row order, under a header of H among the rows
\* of student sid in the caller's frame; null when there is none
FirstNonNull(df, sid, H) ==
  LET R == {r \in RawRows(df, sid) :
              \E j \in DOMAIN df.columns : df.columns[j] \in H /\ df.rows[r][j] # NullCell}
  IN  IF R = {} THEN NullCell
      ELSE LET r == CHOOSE x \in R : \A y \in R : x <= y
           IN  df.rows[r][CHOOSE j \in DOMAIN df.columns : df.columns[j] \in H]

\* attendance first, then assessments, then fees
ExpectedAttribute(sid, H) ==
  LET a == FirstNonNull(attendance_df, sid, H)
      s == FirstNonNull(assessments_df, sid, H)
  IN  IF a # NullCell THEN a
      ELSE IF s # NullCell THEN s ELSE FirstNonNull(fees_df, sid, H)

\* C13: student_name, and independently student_language, of every fused
\* row is the first non-null value of that student in attendance, else in
\* assessments, else in fees, and null only when the three have none; the
\* column exists when a source carries it
C13_AttributeFromFirstSource ==
  Returned =>
    /\ merged.has_name <=>
         \E df \in {attendance_df, assessments_df, fees_df} : Carries(df, NameHeaders)
    /\ merged.has_language <=>
         \E df \in {attendance_df, assessments_df, fees_df} : Carries(df, LanguageHeaders)
    /\ \A i \in DOMAIN merged.rows :
         /\ merged.rows[i].student_name =
              ExpectedAttribute(merged.rows[i].student_id, NameHeaders)
         /\ merged.rows[i].student_language =
              ExpectedAttribute(merged.rows[i].student_id, LanguageHeaders)

\* student 1 has no name in attendance, Bob in assessments and Cy in fees,
\* and a language in fees only: the fused row says Bob and es
C13_Witness ==
  /\ Returned
  /\ Carries(attendance_df, NameHeaders)
  /\ FirstNonNull(attendance_df, IntCell(1), NameHeaders) = NullCell
  /\ FirstNonNull(assessments_df, IntCell(1), NameHeaders) = Bob
  /\ FirstNonNull(fees_df, IntCell(1), NameHeaders) = Cy
  /\ FirstNonNull(assessments_df, IntCell(1), LanguageHeaders) = NullCell
  /\ \E i \in DOMAIN merged.rows :
       /\ merged.rows[i].student_id = IntCell(1)
       /\ merged.rows[i].student_name = Bob
       /\ merged.rows[i].student_language = StrCell(<<"e","s">>)

(* ================== properties of the numeric columns ================== *)

NumericColumns(row) ==
  <<row.attendance_rate, row.avg_score, row.balance_outstanding, row.days_present,
    row.days_total, row.amount_due_total, row.amount_paid_total>>

\* C14: in every fused row each of the seven numeric columns holds a number,
\* never the missing value
C14_NumericNeverNull ==
  Returned =>
    \A i \in DOMAIN merged.rows :
      \A j \in DOMAIN NumericColumns(merged.rows[i]) :
        ~IsNaN(NumericColumns(merged.rows[i])[j])

\* a student with a missing score and no fee line, and a student of the fees
\* file only, both with seven numbers
C14_Witness ==
  /\ Returned
  /\ Len(merged.rows) = 2
  /\ \E r \in DOMAIN assessments_df.rows : assessments_df.rows[r] = <<IntCell(1), NullCell>>
  /\ IntCell(1) \notin RawSids(fees_df)
  /\ IntCell(2) \in RawSids(fees_df) \ (RawSids(attendance_df) \cup RawSids(assessments_df))
  /\ \A i \in DOMAIN merged.rows :
       \A j \in DOMAIN NumericColumns(merged.rows[i]) :
         ~IsNaN(NumericColumns(merged.rows[i])[j])

(* ======================== properties of the rules ====================== *)

ScoredState == pc = "scored"

\* p < q for two floats that are numbers
StrictlyLess(p, q) == p[1] * q[2] < q[1] * p[2]

Flag(b) == IF b THEN 1 ELSE 0

\* the thresholds in force: the object as it is, the dict through the
\* constructor
InForce ==
  IF thresholds.as_dict THEN RuleThresholds(thresholds)
  ELSE [min_attendance_rate |-> thresholds.min_attendance_rate,
        min_avg_score |-> thresholds.min_avg_score,
        max_balance_outstanding |-> thresholds.max_balance_outstanding]

\* C15: each flag is 1 exactly when its metric is strictly on the wrong side
\* of its threshold, so a metric equal to the threshold gives 0
C15_FlagsAreStrict ==
  ScoredState =>
    /\ Len(scored.rows) = Len(merged.rows)
    /\ \A i \in DOMAIN scored.rows :
         LET row == scored.rows[i]
         IN  /\ row.attendance_rate = merged.rows[i].attendance_rate
             /\ row.avg_score = merged.rows[i].avg_score
             /\ row.balance_outstanding = merged.rows[i].balance_outstanding
             /\ row.r_attendance =
                  Flag(StrictlyLess(row.attendance_rate, InForce.min_attendance_rate))
             /\ row.r_scores = Flag(StrictlyLess(row.avg_score, InForce.min_avg_score))
             /\ row.r_fees =
                  Flag(StrictlyLess(InForce.max_balance_outstanding, row.balance_outstanding))

\* the three metrics of a row equal the three thresholds and no flag is set
C15_Witness ==
  /\ ScoredState
  /\ \E i \in DOMAIN scored.rows :
       /\ scored.rows[i].attendance_rate = InForce.min_attendance_rate
       /\ scored.rows[i].avg_score = InForce.min_avg_score
       /\ scored.rows[i].balance_outstanding = InForce.max_balance_outstanding
       /\ scored.rows[i].r_attendance = 0
       /\ scored.rows[i].r_scores = 0
       /\ scored.rows[i].r_fees = 0

\* C16: the points are the sum of the three flags, between 0 and 3, and the
\* level is Low for 0, Medium for 1 and High for 2 or 3, never missing
C16_PointsAndLevel ==
  ScoredState =>
    \A i \in DOMAIN scored.rows :
      LET row == scored.rows[i]
      IN  /\ row.rule_risk_points = row.r_attendance + row.r_scores + row.r_fees
          /\ row.rule_risk_points \in 0..3
          /\ row.rule_risk_level \in {"Low", "Medium", "High"}
          /\ row.rule_risk_level = "Low" <=> row.rule_risk_points = 0
          /\ row.rule_risk_level = "Medium" <=> row.rule_risk_points = 1
          /\ row.rule_risk_level = "High" <=> row.rule_risk_points \in {2, 3}

\* a table with a Medium row of one point and a High row of three
C16_Witness ==
  /\ ScoredState
  /\ \E i, j \in DOMAIN scored.rows :
       /\ scored.rows[i].rule_risk_points = 1
       /\ scored.rows[i].rule_risk_level = "Medium"
       /\ scored.rows[j].rule_risk_points = 3
       /\ scored.rows[j].rule_risk_level = "High"

\* the threshold a call asks for: the value the caller wrote, 0.80, 50.0 or
\* 0.0 for a field the caller left out
Asked ==
  [min_attendance_rate |->
     IF "min_attendance_rate" \in thresholds.given THEN thresholds.min_attendance_rate
     ELSE <<4, 5>>,
   min_avg_score |->
     IF "min_avg_score" \in thresholds.given THEN thresholds.min_avg_score ELSE <<50, 1>>,
   max_balance_outstanding |->
     IF "max_balance_outstanding" \in thresholds.given
     THEN thresholds.max_balance_outstanding ELSE <<0, 1>>]

\* the same keywords in the other form: the object for a dict, the dict for
\* an object
OtherForm ==
  IF thresholds.as_dict
  THEN ThresholdsObject(thresholds.given, thresholds.min_attendance_rate,
                        thresholds.min_avg_score, thresholds.max_balance_outstanding)
  ELSE ThresholdsDict(thresholds.given, thresholds.min_attendance_rate,
                      thresholds.min_avg_score, thresholds.max_balance_outstanding)

\* C17: a field the caller leaves out counts as 0.80, 50.0 or 0.0, and the
\* dict and the object of the same keywords score the table alike
C17_DefaultsAndDictAlike ==
  ScoredState =>
    /\ \A i \in DOMAIN scored.rows :
         LET row == scored.rows[i]
         IN  /\ row.r_attendance =
                  Flag(StrictlyLess(row.attendance_rate, Asked.min_attendance_rate))
             /\ row.r_scores = Flag(StrictlyLess(row.avg_score, Asked.min_avg_score))
             /\ row.r_fees =
                  Flag(StrictlyLess(Asked.max_balance_outstanding, row.balance_outstanding))
    /\ score_rules(merged, OtherForm) = scored

\* a dict with min_avg_score only: a rate of 3/4 is flagged under the
\* default 0.80 and a balance of 1 under the default 0.0
C17_Witness ==
  /\ ScoredState
  /\ thresholds.as_dict
  /\ thresholds.given = {"min_avg_score"}
  /\ \E i \in DOMAIN scored.rows :
       /\ scored.rows[i].attendance_rate = <<3, 4>>
       /\ scored.rows[i].r_attendance = 1
       /\ scored.rows[i].balance_outstanding = <<1, 1>>
       /\ scored.rows[i].r_fees = 1

(* ======================== properties of the calls ====================== *)

\* C18: whatever calls came before, the table a call of fuse_from_frames
\* returns, or the exception it raises, is the one its three arguments
\* determine, and the table score_rules returns is the one the fused table
\* and the thresholds determine
C18_ResultFromArgumentsOnly ==
  pc \in {"returned", "raised", "scored"} =>
    LET out == fuse_from_frames(attendance_df, assessments_df, fees_df, empty_apply_raises)
    IN  /\ pc = "raised" => (out.err # "" /\ err = out.err)
        /\ pc \in {"returned", "scored"} => (out.err = "" /\ merged = out.merged)
        /\ pc = "scored" => scored = score_rules(out.merged, thresholds)

\* a second call has scored a table of two students after a first call
C18_Witness ==
  /\ calls = 2
  /\ ScoredState
  /\ Len(scored.rows) = 2
  /\ scored = score_rules(fuse_from_frames(attendance_df, assessments_df, fees_df,
                                            empty_apply_raises).merged, thresholds)

\* C19: no step of fuse_from_frames changes a header or a cell of the three
\* tables of the caller, whether the call returns or raises, and score_rules
\* leaves the fused table it is given as it was, without the five columns
C19_ArgumentsNotMutated ==
  [][pc' # "call" =>
       /\ attendance_df' = attendance_df
       /\ assessments_df' = assessments_df
       /\ fees_df' = fees_df
       /\ (pc = "returned" => (merged' = merged /\ thresholds' = thresholds))]_vars

\* the call has returned and been scored: the caller's attendance table still
\* has its raw headers and cells while the mapped copy has the canonical ones
C19_Witness ==
  /\ ScoredState
  /\ attendance_df = Days(<<1, 0>>)
  /\ att.columns = <<h_student_id, h_present>>
  /\ att.columns # attendance_df.columns
  /\ Len(scored.rows) > 0
  /\ merged = fuse_from_frames(attendance_df, assessments_df, fees_df,
                                empty_apply_raises).merged

(* ====================== properties of the normaliser =================== *)

RECURSIVE LStrip(_)
LStrip(s) == IF s = <<>> \/ Head(s) \notin {" ", "\t", "\n"} THEN s ELSE LStrip(Tail(s))

RECURSIVE RStrip(_)
RStrip(s) ==
  IF s = <<>> \/ s[Len(s)] \notin {" ", "\t", "\n"} THEN s
  ELSE RStrip(SubSeq(s, 1, Len(s) - 1))

\* the text of a raw header
HeaderText(c) ==
  IF c.k = "str" THEN c.s
  ELSE IF c = IntCell(7) THEN <<"7">> ELSE <<"n","a","n">>

\* r is the text t trimmed, lower-cased, every space an underscore
IsNormalFormOf(r, t) ==
  LET trimmed == RStrip(LStrip(t))
  IN  /\ Len(r) = Len(trimmed)
      /\ \A i \in DOMAIN r :
           IF trimmed[i] = " " THEN r[i] = "_"
           ELSE IF \E u \in DOMAIN UpperChars : UpperChars[u] = trimmed[i]
                THEN \E u \in DOMAIN UpperChars :
                       UpperChars[u] = trimmed[i] /\ r[i] = LowerChars[u]
                ELSE r[i] = trimmed[i]

\* C20: the normaliser gives every header its text trimmed, lower-cased and
\* with every space an underscore, keeps the columns in place and the cells
\* as they were, and applied to its own result changes nothing
C20_NormalizerIsIdempotent ==
  pc = "map_attendance" =>
    /\ Len(att.columns) = Len(attendance_df.columns)
    /\ \A j \in DOMAIN att.columns :
         /\ att.columns[j].k = "str"
         /\ IsNormalFormOf(att.columns[j].s, HeaderText(attendance_df.columns[j]))
    /\ att.rows = attendance_df.rows
    /\ normalize_columns(att) = att

\* a padded header, one in upper case between a tab and a newline, and one
\* with two inner spaces
C20_Witness ==
  /\ pc = "map_attendance"
  /\ attendance_df.columns =
       <<StrCell(<<" ","S","t","u","d","e","n","t"," ","I","D"," ">>),
         StrCell(<<"\t","S","T","A","T","U","S","\n">>),
         StrCell(<<"a"," ","b"," ","c">>)>>
  /\ att.columns = <<h_student_id, StrCell(<<"s","t","a","t","u","s">>),
                     StrCell(<<"a","_","b","_","c">>)>>
  /\ att.rows = <<<<IntCell(1), IntCell(2), IntCell(3)>>>>

(* ==================== properties of the optional columns =============== *)

\* the headers that give a mapped frame its student_language column: the
\* candidates and the canonical label itself
language_names == Append(student_language_cands, h_student_language)

\* every source has a student_id header and attendance a present header
RequiredPresent ==
  /\ ~NoCandidate(attendance_df, present_cands)
  /\ \A df \in {attendance_df, assessments_df, fees_df} : ~NoCandidate(df, student_id_cands)

\* no source has a header for the attribute
NoSourceHas(cands) ==
  \A df \in {attendance_df, assessments_df, fees_df} : NoCandidate(df, cands)

\* C21: a call whose sources have their required headers returns whichever
\* of the name, language and date headers are absent; when no source has a
\* name header the fused table has no student_name column, when none has a
\* language header it has no student_language column, and an attendance
\* table without a date header gives its students their fused rows
C21_OptionalAbsenceIsSilent ==
  /\ RequiredPresent => (pc # "raised" /\ err = "")
  /\ Returned =>
       /\ NoSourceHas(student_name_cands) =>
            (~merged.has_name /\ \A i \in DOMAIN merged.rows : IsNull(merged.rows[i].student_name))
       /\ NoSourceHas(language_names) =>
            (~merged.has_language
               /\ \A i \in DOMAIN merged.rows : IsNull(merged.rows[i].student_language))
       /\ NoCandidate(attendance_df, date_cands) =>
            \A sid \in RawSids(attendance_df) :
              \E i \in DOMAIN merged.rows :
                /\ merged.rows[i].student_id = sid
                /\ merged.rows[i].days_total = RatOfInt(Cardinality(RawRows(attendance_df, sid)))

\* three files with their required headers only: two fused rows and neither
\* attribute column
C21_Witness ==
  /\ Returned
  /\ Norm(attendance_df) = <<h_student_id, h_present>>
  /\ Norm(assessments_df) = <<h_student_id, h_score>>
  /\ Norm(fees_df) = <<h_student_id, h_amount_due, h_amount_paid>>
  /\ Len(merged.rows) = 2
  /\ ~merged.has_name
  /\ ~merged.has_language

(* ======================= properties of load_data ======================= *)

\* model_predict was called and raised
PredictRaised == pc = "loaded" /\ model_df.raised \notin {"", "not called"}

\* C22: when model_predict raises, FileNotFoundError or another exception,
\* load_data returns a table and not None: the rows score_rules gave for
\* the fused table, one for each row of it, with the same optional columns
\* and without a model_risk_score column
C22_PredictFailureKeepsRules ==
  PredictRaised =>
    /\ ~loaded.none
    /\ ~loaded.has_model
    /\ loaded.has_name = merged.has_name
    /\ loaded.has_language = merged.has_language
    /\ Len(loaded.rows) = Len(merged.rows)
    /\ \A i \in DOMAIN loaded.rows :
         /\ IsNaN(loaded.rows[i].model_risk_score)
         /\ \A k \in DOMAIN ScoreRow(merged.rows[i], RuleThresholds(LoadThresholds)) :
              loaded.rows[i][k] = ScoreRow(merged.rows[i], RuleThresholds(LoadThresholds))[k]

\* without the artifact the two students of the files come back scored by
\* the rules
C22_Witness ==
  /\ PredictRaised
  /\ model_df.raised = "FileNotFoundError"
  /\ Len(loaded.rows) = 2
  /\ ~loaded.has_model
  /\ \E i \in DOMAIN loaded.rows :
       /\ loaded.rows[i].student_id = IntCell(2)
       /\ loaded.rows[i].rule_risk_level = "High"

(* =================== properties of the language detector ================ *)

\* the text of a value without the surrounding whitespace, in lower case
Trimmed(c) == StrLower(LStrip(RStrip(CellStr(c))))

\* the value names a language of the mapping
Recognised(d) ==
  /\ d.has
  /\ d.value.k = "str"
  /\ Trimmed(d.value) \in LatinNames \cup NativeNames

\* C23: the detector returns "en" when the row has no student_language, when
\* the value is empty or falsy, null, or names no language of the mapping;
\* a recognised name, trimmed and whatever its case, gives the code the
\* mapping has for it; every call returns a code
C23_DetectorDefaultsToEnglish ==
  pc = "detected" =>
    /\ detected_lang \in {lang_mapping[n] : n \in DOMAIN lang_mapping}
    /\ ~Recognised(student_data) => detected_lang = "en"
    /\ Recognised(student_data) => detected_lang = lang_mapping[Trimmed(student_data.value)]

\* " Tamil " with its padding and capital gives ta
C23_Witness ==
  /\ pc = "detected"
  /\ student_data.has
  /\ student_data.value = StrCell(<<" ","T","a","m","i","l"," ","\n">>)
  /\ detected_lang = "ta"

(* ===================== properties of the identifiers =================== *)

\* the student_id cells of a mapped table
SidCells(df) == {Series(df, h_student_id)[r] : r \in DOMAIN df.rows}

\* C24: after mapping every student_id is a string, and an identifier
\* written as a number in one source and as text in another is one student:
\* the fused table has one row for each identifier text
C24_StudentIdIsString ==
  Returned =>
    /\ \A c \in SidCells(att) \cup SidCells(ass) \cup SidCells(fee) : c.k = "str"
    /\ \A i, j \in DOMAIN merged.rows :
         CellStr(merged.rows[i].student_id) = CellStr(merged.rows[j].student_id) => i = j

(* ================= properties of the order of the checks =============== *)

\* the messages of the four structural checks, in the order of the code
StructuralErrors ==
  <<"KeyError: present", "KeyError: Attendance student_id",
    "KeyError: Assessments student_id", "KeyError: Fees student_id">>

\* check k fails on the mapped tables
Fails(k) ==
  CASE k = 1 -> ~HasCol(att, h_present)
    [] k = 2 -> ~HasCol(att, h_student_id)
    [] k = 3 -> ~HasCol(ass, h_student_id)
    [] k = 4 -> ~HasCol(fee, h_student_id)

\* no label twice in the table
DistinctLabels(df) == \A i, j \in DOMAIN df.columns : df.columns[i] = df.columns[j] => i = j

\* the tables aggregated before check k have distinct labels, so that
\* their aggregation raises nothing of its own
DistinctBefore(k) ==
  /\ k >= 3 => DistinctLabels(att)
  /\ k >= 4 => DistinctLabels(ass)

RECURSIVE KeepIdentified(_)
\* the rows of a record-level input whose student_id cell is not missing
KeepIdentified(rows) ==
  IF Len(rows) = 0 THEN <<>>
  ELSE (IF IsNull(rows[1][1]) THEN <<>> ELSE <<rows[1]>>)
         \o KeepIdentified(SubSeq(rows, 2, Len(rows)))

WithoutUnidentified(df) == Frame(df.columns, KeepIdentified(df.rows))

\* some row of some source has no student_id
SomeUnidentified ==
  \E df \in {attendance_df, assessments_df, fees_df} :
    \E r \in DOMAIN df.rows : IsNull(df.rows[r][1])

\* C26: a row without student_id is left out by the grouping: the fused
\* table has no row for the missing identifier, the table and the outcome
\* of the call are those of the same sources without these rows, and the
\* call raises only when the fees source has no identified row at all
C26_UnidentifiedRowsAreDropped ==
  (Aggregated /\ SomeUnidentified) =>
    LET clean == fuse_from_frames(WithoutUnidentified(attendance_df),
                                  WithoutUnidentified(assessments_df),
                                  WithoutUnidentified(fees_df), empty_apply_raises)
    IN  /\ \A i \in DOMAIN merged.rows : ~IsNull(merged.rows[i].student_id)
        /\ merged = clean.merged
        /\ err = clean.err
        /\ pc = "raised" => RawSids(fees_df) = {}

\* an attendance row marked present without student_id, beside an absence
\* of student 1: the rate of student 1 is 0 and no other row is made
C26_Witness ==
  /\ Returned
  /\ SomeUnidentified
  /\ attendance_df.rows = <<<<NullCell, IntCell(1)>>, <<IntCell(1), IntCell(0)>>>>
  /\ FusedSids = {IntCell(1)}
  /\ \E i \in DOMAIN merged.rows : merged.rows[i].attendance_rate = Zero

(* ================= properties of the header name ======================= *)

\* the positions of the assessments file whose header normalises to name
NameAt == {k \in DOMAIN assessments_df.columns : Norm(assessments_df)[k] = h_name}

\* the assessments file has a header that normalises to h
FileHas(h) == h \in Labels(Norm(assessments_df))

\* a candidate of assessment_name that comes before name
EarlierAssessmentName ==
  \E i \in 1..(Len(assessment_name_cands) - 1) : FileHas(assessment_name_cands[i])

\* C27: in the assessments mapper the header name is a candidate of
\* student_name and of assessment_name, and student_name is resolved first:
\* without a student_name header name becomes student_name, and its cell is
\* the name of the student in the fused table when attendance has none;
\* name becomes assessment_name only when a student_name header is there
\* and none of assessment_name, exam, test, assessment, component is, and
\* then it does
C27_NameIsStudentNameFirst ==
  /\ InList(student_name_cands, h_name) /\ InList(assessment_name_cands, h_name)
  /\ pc \in {"map_fees", "aggregate", "returned"} =>
       \A k \in NameAt :
         /\ ~FileHas(h_student_name) => ass.columns[k] = h_student_name
         /\ ass.columns[k] = h_assessment_name
              <=> (FileHas(h_student_name) /\ ~EarlierAssessmentName)
  /\ (Returned /\ NameAt # {} /\ ~FileHas(h_student_name)) =>
       /\ merged.has_name
       /\ \A i \in DOMAIN merged.rows :
            \A k \in NameAt : merged.rows[i].student_name = assessments_df.rows[1][k]

\* the headers name and exam without student_name: Ann, the cell under
\* name, is the student_name of the fused row
C27_Witness ==
  /\ Returned
  /\ Norm(assessments_df) = <<h_student_id, h_score, h_name, StrCell(<<"e","x","a","m">>)>>
  /\ ass.columns = <<h_student_id, h_score, h_student_name, h_assessment_name>>
  /\ merged.has_name
  /\ \E i \in DOMAIN merged.rows : merged.rows[i].student_name = StrCell(<<"A","n","n">>)

(* ============== properties of a student of the fees file only ========== *)

\* sid has rows in the fees file and in no other
FeesOnly(sid) ==
  /\ sid \in RawSids(fees_df)
  /\ sid \notin RawSids(attendance_df) \cup RawSids(assessments_df)

\* a threshold that is a number above 0
Positive(q) == ~IsNaN(q) /\ StrictlyLess(Zero, q)

\* C28: fused and then scored under thresholds whose min_attendance_rate
\* and min_avg_score are above 0, a student of the fees file only has
\* attendance_rate 0 and avg_score 0, the flags r_attendance and r_scores,
\* at least 2 points and the level High, whatever the balance
C28_FeesOnlyStudentIsHigh ==
  (ScoredState /\ Positive(InForce.min_attendance_rate) /\ Positive(InForce.min_avg_score)) =>
    \A i \in DOMAIN scored.rows :
      LET row == scored.rows[i]
      IN  FeesOnly(row.student_id) =>
            /\ row.attendance_rate = Zero
            /\ row.avg_score = Zero
            /\ row.r_attendance = 1
            /\ row.r_scores = 1
            /\ row.rule_risk_points >= 2
            /\ row.rule_risk_level = "High"

\* student 2 has paid more than due: no balance, yet 2 points and High
C28_Witness ==
  /\ ScoredState
  /\ Positive(InForce.min_attendance_rate) /\ Positive(InForce.min_avg_score)
  /\ \E i \in DOMAIN scored.rows :
       /\ FeesOnly(scored.rows[i].student_id)
       /\ scored.rows[i].balance_outstanding = Zero
       /\ scored.rows[i].r_fees = 0
       /\ scored.rows[i].rule_risk_points = 2
       /\ scored.rows[i].rule_risk_level = "High"

(* ==================== properties of the row order ====================== *)

\* the orders of n rows: the permutations of 1..n
RowOrders(n) == {p \in [1..n -> 1..n] : \A i, j \in 1..n : p[i] = p[j] => i = j}

\* the rows of df in the order p
Permute(df, p) == Frame(df.columns, [i \in DOMAIN df.rows |-> df.rows[p[i]]])

\* the students of a fused table, each with the three metrics
Metrics(m) ==
  {<<m.rows[i].student_id, m.rows[i].attendance_rate, m.rows[i].avg_score,
     m.rows[i].balance_outstanding>> : i \in DOMAIN m.rows}

\* the fusions of the caller's files with the rows of one of them permuted
Reordered ==
  {fuse_from_frames(Permute(attendance_df, p), assessments_df, fees_df, empty_apply_raises) :
     p \in RowOrders(Len(attendance_df.rows))}
    \cup {fuse_from_frames(attendance_df, Permute(assessments_df, p), fees_df, empty_apply_raises) :
            p \in RowOrders(Len(assessments_df.rows))}
    \cup {fuse_from_frames(attendance_df, assessments_df, Permute(fees_df, p), empty_apply_raises) :
            p \in RowOrders(Len(fees_df.rows))}

C30_AggregateLeavesArguments ==
  [][pc = "aggregate" => (att' = att /\ ass' = ass /\ fee' = fee)]_vars

====
